---- MODULE Spec2Model ----
(***************************************************************************)
(* MyHealthPal backend: the risk assessment engine (MLService) of          *)
(* backend/services/ml_service.py and the way backend/main.py answers for  *)
(* it.                                                                     *)
(*                                                                         *)
(* Fixed-point units used for the floats of the source:                    *)
(*   risk scores and overall health score   hundredths of a point          *)
(*   probabilities                          1/10000                        *)
(*   BMXHT (height_cm)                      hundredths of a centimetre     *)
(*   BMXWT (weight_kg)                      tenths of a gram               *)
(*   bmi                                    tenths (the source rounds it)  *)
(***************************************************************************)
EXTENDS Integers, Sequences, FiniteSets

VARIABLES
    ml_service,   \* the MLService object of main.py: its fields
    pc,           \* "init": fields set, load_models not yet run; "idle"; "returned"
    call,         \* the frame of the get_comprehensive_assessment call in progress
    startup,      \* history: what load_models found on disk at process start
    degraded      \* history: an earlier call left a model-backed path by an exception

vars == <<ml_service, pc, call, startup, degraded>>

\* Most transform failures (encoder, imputer, scalers) injected into one call.
MaxFailures == 1

(***************************************************************************)
(* Python values of a raw input mapping.                                   *)
(***************************************************************************)
IntV(i) == [tag |-> "int", n |-> i, s |-> ""]
StrV(t) == [tag |-> "str", n |-> 0, s |-> t]
BoolV(b) == [tag |-> "bool", n |-> IF b THEN 1 ELSE 0, s |-> ""]
NoneV == [tag |-> "none", n |-> 0, s |-> ""]
\* the key is not in the mapping
Absent == [tag |-> "absent", n |-> 0, s |-> ""]

\* A lookup that ignores the default: a missing key reads as None.
GetNone(v, default) == IF v.tag = "absent" THEN NoneV ELSE v

\* dict.get(key, default)
Get(v, default) == IF v.tag = "absent" THEN default ELSE v

\* The strings int() and float() parse, with their values.
NumericStrings == {"42", "5"}
NumericValue(t) == CASE t = "42" -> 42 [] t = "5" -> 5 [] OTHER -> 0

\* int(v) and float(v): raise on None and on a string that is no number.
PyNumber(v) ==
    CASE v.tag \in {"int", "bool"} -> [ok |-> TRUE, n |-> v.n]
      [] v.tag = "str" /\ v.s \in NumericStrings -> [ok |-> TRUE, n |-> NumericValue(v.s)]
      [] OTHER -> [ok |-> FALSE, n |-> 0]

\* bool(v): truthiness, never raises for these values.
PyBool(v) ==
    CASE v.tag \in {"int", "bool"} -> v.n # 0
      [] v.tag = "str" -> v.s # ""
      [] OTHER -> FALSE

\* s.lower() == 'male'
LowerIsMale(t) == t \in {"Male", "male", "MALE"}

\* word in s.lower(), for the words the predictors look for
LowerContains(word, t) ==
    CASE word = "sedentary" -> t \in {"Sedentary", "sedentary", "SEDENTARY"}
      [] word = "light" -> t \in {"Light", "light"}
      [] word = "moderate" -> t \in {"Moderate", "moderate"}
      [] OTHER -> FALSE

(***************************************************************************)
(* Arithmetic.                                                             *)
(***************************************************************************)
\* n / d rounded to the nearest integer, ties to even (Python's round), n >= 0.
\* (A decimal tie need not be a tie of the binary float; the inputs used below
\* give no ties in the risk scores.)
RoundDiv(n, d) ==
    LET q == n \div d
        r == n % d
    IN IF 2 * r < d THEN q
       ELSE IF 2 * r > d THEN q + 1
       ELSE IF q % 2 = 0 THEN q ELSE q + 1

\* round(x, 1) of a score x given in hundredths: the result in hundredths
Round1(x) == 10 * RoundDiv(x, 10)

Min(a, b) == IF a < b THEN a ELSE b
Max(a, b) == IF a > b THEN a ELSE b

(***************************************************************************)
(* The model bundle: what a model file unpickles to.                       *)
(***************************************************************************)
None == [kind |-> "None", raises |-> FALSE, proba |-> <<>>]
\* a scaler, imputer or encoder (its transform may fail on a given call)
Transformer == [kind |-> "transformer", raises |-> FALSE, proba |-> <<>>]
\* the parsed model_metadata.json
Metadata == [kind |-> "metadata", raises |-> FALSE, proba |-> <<>>]
\* a scorer whose predict_proba(X)[0] is the vector p (probabilities in 1/10000)
Scorer(p) == [kind |-> "scorer", raises |-> FALSE, proba |-> p]
\* an object whose predict_proba raises (wrong feature count, not a classifier, ...)
RaisingScorer == [kind |-> "scorer", raises |-> TRUE, proba |-> <<>>]

\* The attributes load_models fills, one per entry of model_files.
ModelAttrs ==
    {"obesity_model", "obesity_scaler", "obesity_imputer", "activity_encoder",
     "heart_disease_model", "heart_disease_scaler", "model_metadata"}

\* The transforms a call applies; a call's environment names those that raise.
Transforms ==
    {"activity_encoder", "obesity_imputer", "obesity_scaler", "heart_disease_scaler"}

\* MLService.__init__, before it calls load_models
NewService ==
    [models_loaded |-> FALSE, fallback_mode |-> FALSE,
     obesity_model |-> None, obesity_scaler |-> None, obesity_imputer |-> None,
     activity_encoder |-> None, heart_disease_model |-> None,
     heart_disease_scaler |-> None, model_metadata |-> None]

\* A model file that does not exist, and one whose load raises.
MissingFile == [kind |-> "missing", raises |-> FALSE, proba |-> <<>>]
CorruptFile == [kind |-> "corrupt", raises |-> FALSE, proba |-> <<>>]

\* A loop body that assigns whatever a present file gave, loadable or not.
LoadUnchecked(old, file) == IF file = MissingFile THEN old ELSE file

\* One pass of the loop body: a missing file and a file whose load raises are
\* skipped (continue), so the attribute keeps its value; else it is assigned.
LoadFile(old, file) == IF file \in {MissingFile, CorruptFile} THEN old ELSE file

\* A check that asks for every component of the bundle.
all_models_loaded(self) == \A a \in ModelAttrs : self[a] # None

\* A check that is satisfied by either scorer.
any_scorer_loaded(self) ==
    self.obesity_model # None \/ self.heart_disease_model # None

\* "Check if critical models are loaded"
critical_models_loaded(self) == self.obesity_model # None

\* load_models: fs.dir is "missing", "error" (probing the directory raises) or
\* "ok"; fs.files gives each model file as MissingFile, CorruptFile or its content.
load_models(self, fs) ==
    IF fs.dir = "missing"
    THEN [self |-> [self EXCEPT !.fallback_mode = TRUE], ret |-> FALSE]
    ELSE IF fs.dir = "error"
    THEN [self |-> [self EXCEPT !.fallback_mode = TRUE], ret |-> FALSE]
    ELSE LET after == [a \in DOMAIN self |->
                          IF a \in ModelAttrs THEN LoadFile(self[a], fs.files[a])
                          ELSE self[a]]
         IN IF critical_models_loaded(after)
            THEN [self |-> [after EXCEPT !.models_loaded = TRUE,
                                         !.fallback_mode = FALSE],
                  ret |-> TRUE]
            ELSE [self |-> [after EXCEPT !.fallback_mode = TRUE], ret |-> FALSE]

(***************************************************************************)
(* Input Normalizer and BMI Calculator.                                    *)
(***************************************************************************)
IsNum(v) == v.tag \in {"int", "bool"}

NoFeatures ==
    [RIDAGEYR |-> Absent, Gender_Male |-> Absent, BMXHT |-> Absent, BMXWT |-> Absent,
     Activity_Level |-> Absent, family_history |-> Absent, smoking |-> Absent]

\* convert_inputs: ok = FALSE stands for the ValueError of line 158.
convert_inputs(user_input) ==
    LET age == PyNumber(Get(user_input.age, IntV(30)))
        gender == Get(user_input.gender, StrV("Male"))
        height_feet == PyNumber(Get(user_input.height_feet, IntV(5)))
        height_inches == PyNumber(Get(user_input.height_inches, IntV(8)))
        weight_lbs == PyNumber(Get(user_input.weight_lbs, IntV(150)))
        activity_level == Get(user_input.activity_level, StrV("Moderate"))
        family_history == PyBool(Get(user_input.family_history, BoolV(FALSE)))
        smoking == PyBool(Get(user_input.smoking, BoolV(FALSE)))
    IN IF ~age.ok \/ ~height_feet.ok \/ ~height_inches.ok \/ ~weight_lbs.ok
          \/ gender.tag # "str"
       THEN [ok |-> FALSE, features |-> NoFeatures]
       ELSE [ok |-> TRUE,
             features |->
               [RIDAGEYR |-> IntV(age.n),
                Gender_Male |-> IntV(IF LowerIsMale(gender.s) THEN 1 ELSE 0),
                \* ((height_feet * 12) + height_inches) * 2.54
                BMXHT |-> IntV(((height_feet.n * 12) + height_inches.n) * 254),
                \* weight_lbs / 2.20462, by long division
                BMXWT |-> IntV(((weight_lbs.n * 1000000) \div 220462) * 1000
                               + (((weight_lbs.n * 1000000) % 220462) * 1000)
                                 \div 220462),
                Activity_Level |-> activity_level,
                family_history |-> IntV(IF family_history THEN 1 ELSE 0),
                smoking |-> IntV(IF smoking THEN 1 ELSE 0)]]

\* calculate_bmi with inclusive upper bounds (<=) on the three thresholds.
calculate_bmi_inclusive(height_cm, weight_kg) ==
    IF ~IsNum(height_cm) \/ ~IsNum(weight_kg) \/ height_cm.n = 0
    THEN [bmi |-> 250, category |-> "Normal Weight"]
    ELSE LET h2 == (height_cm.n * height_cm.n) \div 100
             w == weight_kg.n * 1000
         IN [bmi |-> RoundDiv(w, h2),
             category |-> CASE w <= 185 * h2 -> "Underweight"
                            [] w > 185 * h2 /\ w <= 250 * h2 -> "Normal Weight"
                            [] w > 250 * h2 /\ w <= 300 * h2 -> "Overweight"
                            [] OTHER -> "Obese"]

\* calculate_bmi whose except clause answers (0.0, "Underweight").
calculate_bmi_zero_default(height_cm, weight_kg) ==
    IF ~IsNum(height_cm) \/ ~IsNum(weight_kg) \/ height_cm.n = 0
    THEN [bmi |-> 0, category |-> "Underweight"]
    ELSE LET h2 == (height_cm.n * height_cm.n) \div 100
             floor10 == (weight_kg.n * 1000) \div h2
         IN [bmi |-> RoundDiv(weight_kg.n * 1000, h2),
             category |-> CASE floor10 < 185 -> "Underweight"
                            [] floor10 >= 185 /\ floor10 < 250 -> "Normal Weight"
                            [] floor10 >= 250 /\ floor10 < 300 -> "Overweight"
                            [] OTHER -> "Obese"]

\* calculate_bmi: the value rounded to one decimal (in tenths) and the category
\* of the unrounded value; any exception (a zero height, a height or weight
\* that is no number) gives (25.0, "Normal Weight").
\* bmi = weight_kg / (height_cm / 100) ** 2; in tenths that is
\* (weight * 1000) / (height ** 2 / 100) in the units above.  The divisor is
\* cut to an integer to stay within 32 bits (relative error below 1e-6): for
\* whole heights of 48 to 95 inches and whole weights of 20 to 400 pounds the
\* category is that of the float computation, and so is the rounded value for
\* all but 7 of these 18288 pairs.
calculate_bmi(height_cm, weight_kg) ==
    IF ~IsNum(height_cm) \/ ~IsNum(weight_kg) \/ height_cm.n = 0
    THEN [bmi |-> 250, category |-> "Normal Weight"]
    ELSE LET h2 == (height_cm.n * height_cm.n) \div 100
             floor10 == (weight_kg.n * 1000) \div h2
         IN [bmi |-> RoundDiv(weight_kg.n * 1000, h2),
             category |-> CASE floor10 < 185 -> "Underweight"
                            [] floor10 < 250 -> "Normal Weight"
                            [] floor10 < 300 -> "Overweight"
                            [] OTHER -> "Obese"]

(***************************************************************************)
(* Risk Predictors.  A predictor's result: raised (an exception leaves the *)
(* operator), category, score (hundredths), and two observations: path     *)
(* ("model", "fallback", "default"), caught (the model-backed path raised  *)
(* and the except clause took over) and trace (the components invoked).    *)
(***************************************************************************)
Result(category, score, path, trace) ==
    [raised |-> FALSE, category |-> category, score |-> score, path |-> path,
     caught |-> FALSE, trace |-> trace]
Raise(trace) ==
    [raised |-> TRUE, category |-> "", score |-> 0, path |-> "raise",
     caught |-> FALSE, trace |-> trace]

\* v == 1
Eq1(v) == IsNum(v) /\ v.n = 1

\* p * 100: a probability (1/10000) as a percentage (hundredths)
Times100(p) == (p * 100 * 100) \div 10000

\* "Categorize risk" of the obesity and heart-disease predictors
risk_category(risk_score) ==
    IF risk_score < 3000 THEN "Low"
    ELSE IF risk_score < 7000 THEN "Medium"
    ELSE "High"

\* "Categorize" of the diabetes predictor
diabetes_category(risk_score) ==
    IF risk_score < 2500 THEN "Low"
    ELSE IF risk_score < 6000 THEN "Medium"
    ELSE "High"

\* One optional transform of a model-backed path: invoked, and whether it
\* succeeded (a failure is logged and the step skipped).
Step(name, failing) == <<[c |-> name, ok |-> name \notin failing]>>

\* The obesity rules with the age tier starting at 50 instead of above 50.
obesity_rules_age_from_50(features) ==
    IF features.BMXHT.tag = "absent" \/ features.BMXWT.tag = "absent"
       \/ ~IsNum(features.RIDAGEYR)
       \/ Get(features.Activity_Level, StrV("")).tag # "str"
    THEN Raise(<<>>)
    ELSE LET bmi == calculate_bmi(features.BMXHT, features.BMXWT).bmi
             age == features.RIDAGEYR.n
             base == IF bmi >= 300 THEN 7500 ELSE IF bmi >= 250 THEN 4500 ELSE 1500
             aged == base + (IF age >= 50 THEN 1000 ELSE 0)
             activity == Get(features.Activity_Level, StrV("")).s
             risk_score == Min(9500, aged + (IF LowerContains("sedentary", activity)
                                             THEN 1500 ELSE 0))
         IN Result(risk_category(risk_score), risk_score, "fallback", <<>>)

\* The try body of _fallback_obesity_prediction.
fallback_obesity_rules(features) ==
    IF features.BMXHT.tag = "absent" \/ features.BMXWT.tag = "absent"
       \/ ~IsNum(features.RIDAGEYR)
       \/ Get(features.Activity_Level, StrV("")).tag # "str"
    THEN Raise(<<>>)
    ELSE LET bmi == calculate_bmi(features.BMXHT, features.BMXWT).bmi
             age == features.RIDAGEYR.n
             base == IF bmi >= 300 THEN 7500 ELSE IF bmi >= 250 THEN 4500 ELSE 1500
             aged == base + (IF age > 50 THEN 1000 ELSE 0)
             activity == Get(features.Activity_Level, StrV("")).s
             risk_score == Min(9500, aged + (IF LowerContains("sedentary", activity)
                                             THEN 1500 ELSE 0))
         IN Result(risk_category(risk_score), risk_score, "fallback", <<>>)

\* The obesity rules without the bare except around them.
obesity_rules_unguarded(features) == fallback_obesity_rules(features)

\* _fallback_obesity_prediction: the bare except gives ("Medium", 45.0).
_fallback_obesity_prediction(features) ==
    LET body == fallback_obesity_rules(features)
    IN IF body.raised THEN Result("Medium", 4500, "default", <<>>) ELSE body

\* The heart-disease rules with the adjustments of the model-backed path.
heart_rules_with_model_table(features) ==
    IF ~IsNum(features.RIDAGEYR) \/ features.Gender_Male.tag = "absent"
       \/ features.family_history.tag = "absent" \/ features.smoking.tag = "absent"
       \/ features.BMXHT.tag = "absent" \/ features.BMXWT.tag = "absent"
    THEN Raise(<<>>)
    ELSE LET age == features.RIDAGEYR.n
             bmi == calculate_bmi(features.BMXHT, features.BMXWT).bmi
             risk_score ==
                 2000
                 + (IF age > 65 THEN 1500 ELSE IF age > 55 THEN 1000
                    ELSE IF age > 45 THEN 500 ELSE 0)
                 + (IF Eq1(features.Gender_Male) THEN 500 ELSE 0)
                 + (IF Eq1(features.family_history) THEN 1500 ELSE 0)
                 + (IF Eq1(features.smoking) THEN 2000 ELSE 0)
                 + (IF bmi >= 300 THEN 1000 ELSE IF bmi >= 250 THEN 500 ELSE 0)
             capped == Min(9500, risk_score)
         IN Result(risk_category(capped), capped, "fallback", <<>>)

\* The try body of _fallback_heart_disease_prediction.
fallback_heart_disease_rules(features) ==
    IF ~IsNum(features.RIDAGEYR) \/ features.Gender_Male.tag = "absent"
       \/ features.family_history.tag = "absent" \/ features.smoking.tag = "absent"
       \/ features.BMXHT.tag = "absent" \/ features.BMXWT.tag = "absent"
    THEN Raise(<<>>)
    ELSE LET age == features.RIDAGEYR.n
             bmi == calculate_bmi(features.BMXHT, features.BMXWT).bmi
             risk_score ==
                 2000
                 + (IF age > 65 THEN 2500 ELSE IF age > 55 THEN 1500
                    ELSE IF age > 45 THEN 1000 ELSE 0)
                 + (IF Eq1(features.Gender_Male) THEN 1000 ELSE 0)
                 + (IF Eq1(features.family_history) THEN 2000 ELSE 0)
                 + (IF Eq1(features.smoking) THEN 2500 ELSE 0)
                 + (IF bmi >= 300 THEN 1500 ELSE 0)
             capped == Min(9500, risk_score)
         IN Result(risk_category(capped), capped, "fallback", <<>>)

\* _fallback_heart_disease_prediction: the bare except gives ("Medium", 40.0).
_fallback_heart_disease_prediction(features) ==
    LET body == fallback_heart_disease_rules(features)
    IN IF body.raised THEN Result("Medium", 4000, "default", <<>>) ELSE body

\* A model-backed path that gives up at the first transform that fails.
obesity_model_path_stops_at_failure(self, features, failing) ==
    LET encode == IF self.activity_encoder # None
                  THEN Step("activity_encoder",
                            IF features.Activity_Level.tag = "absent"
                            THEN {"activity_encoder"} ELSE failing)
                  ELSE <<>>
        impute == IF self.obesity_imputer # None
                  THEN Step("obesity_imputer", failing) ELSE <<>>
        scale == IF self.obesity_scaler # None
                 THEN Step("obesity_scaler", failing) ELSE <<>>
        steps == encode \o impute \o scale
        stops == {i \in DOMAIN steps : ~steps[i].ok}
        trace == steps
                 \o <<[c |-> "obesity_model", ok |-> ~self.obesity_model.raises]>>
        risk_probability == self.obesity_model.proba
    IN IF stops # {}
       THEN Raise(SubSeq(steps, 1, CHOOSE i \in stops : \A j \in stops : i <= j))
       ELSE IF self.obesity_model.raises \/ Len(risk_probability) = 0
       THEN Raise(trace)
       ELSE LET risk_score == IF Len(risk_probability) > 1
                              THEN Times100(risk_probability[2])
                              ELSE Times100(risk_probability[1])
            IN Result(risk_category(risk_score), Round1(risk_score), "model", trace)

\* The model-backed path of predict_obesity_risk (lines 205-263).
obesity_model_path(self, features, failing) ==
    LET encode == IF self.activity_encoder # None
                  THEN Step("activity_encoder",
                            IF features.Activity_Level.tag = "absent"
                            THEN {"activity_encoder"} ELSE failing)
                  ELSE <<>>
        impute == IF self.obesity_imputer # None
                  THEN Step("obesity_imputer", failing) ELSE <<>>
        scale == IF self.obesity_scaler # None
                 THEN Step("obesity_scaler", failing) ELSE <<>>
        trace == encode \o impute \o scale
                 \o <<[c |-> "obesity_model", ok |-> ~self.obesity_model.raises]>>
        risk_probability == self.obesity_model.proba
    IN IF self.obesity_model.raises \/ Len(risk_probability) = 0
       THEN Raise(trace)
       ELSE LET risk_score == IF Len(risk_probability) > 1
                              THEN Times100(risk_probability[2])
                              ELSE Times100(risk_probability[1])
            IN Result(risk_category(risk_score), Round1(risk_score), "model", trace)

\* A selection rule that looks at the predictor's own scorer only.
scorer_absent(self, model) == model = None

\* The selection rule of both model-backed predictors.
use_fallback(self, model) == self.fallback_mode \/ model = None

\* A predictor without its outer except clause: the exception propagates.
Propagate(body, fallback) == body

\* An except clause that answers with a fixed default instead of the rules.
ExceptDefault(body, fallback) ==
    IF body.raised
    THEN [raised |-> FALSE, category |-> "Medium", score |-> 4000,
          path |-> "default", caught |-> TRUE, trace |-> body.trace]
    ELSE body

\* What the outer except clause of a predictor does with its try body.
Except(body, fallback) ==
    IF body.raised
    THEN [fallback EXCEPT !.caught = TRUE, !.trace = body.trace]
    ELSE body

\* predict_obesity_risk
predict_obesity_risk(self, features, failing) ==
    IF use_fallback(self, self.obesity_model)
    THEN _fallback_obesity_prediction(features)
    ELSE Except(obesity_model_path(self, features, failing),
                _fallback_obesity_prediction(features))

\* The clinical adjustment without its tier for a BMI of 25 to 30.
clinical_adjustment_one_bmi_tier(features, bmi) ==
    LET age == features.RIDAGEYR.n
    IN (IF age > 65 THEN 1500 ELSE IF age > 55 THEN 1000
        ELSE IF age > 45 THEN 500 ELSE 0)
       + (IF Eq1(features.Gender_Male) THEN 500 ELSE 0)
       + (IF bmi >= 300 THEN 1000 ELSE 0)
       + (IF Eq1(features.family_history) THEN 1500 ELSE 0)
       + (IF Eq1(features.smoking) THEN 2000 ELSE 0)

\* "Apply clinical risk factors adjustment" (lines 329-357)
clinical_adjustment(features, bmi) ==
    LET age == features.RIDAGEYR.n
    IN (IF age > 65 THEN 1500 ELSE IF age > 55 THEN 1000
        ELSE IF age > 45 THEN 500 ELSE 0)
       + (IF Eq1(features.Gender_Male) THEN 500 ELSE 0)
       + (IF bmi >= 300 THEN 1000 ELSE IF bmi >= 250 THEN 500 ELSE 0)
       + (IF Eq1(features.family_history) THEN 1500 ELSE 0)
       + (IF Eq1(features.smoking) THEN 2000 ELSE 0)

\* The model-backed path of predict_heart_disease_risk (lines 283-371).
heart_disease_model_path(self, features, failing) ==
    IF features.RIDAGEYR.tag = "absent" \/ features.Gender_Male.tag = "absent"
       \/ features.BMXHT.tag = "absent" \/ features.BMXWT.tag = "absent"
    THEN Raise(<<>>)
    ELSE
    LET encode == IF self.activity_encoder # None
                  THEN Step("activity_encoder",
                            IF features.Activity_Level.tag = "absent"
                            THEN {"activity_encoder"} ELSE failing)
                  ELSE <<>>
        bmi == calculate_bmi(features.BMXHT, features.BMXWT).bmi
        scale == IF self.heart_disease_scaler # None
                 THEN Step("heart_disease_scaler", failing) ELSE <<>>
        trace == encode \o scale
                 \o <<[c |-> "heart_disease_model",
                       ok |-> ~self.heart_disease_model.raises]>>
        risk_probability == self.heart_disease_model.proba
    IN IF self.heart_disease_model.raises \/ Len(risk_probability) = 0
          \/ ~IsNum(features.RIDAGEYR)
          \/ features.family_history.tag = "absent" \/ features.smoking.tag = "absent"
       THEN Raise(trace)
       ELSE LET ml_risk_score == IF Len(risk_probability) > 1
                                 THEN Times100(risk_probability[2])
                                 ELSE Times100(risk_probability[1])
                final_risk_score ==
                    Min(9500, ml_risk_score + clinical_adjustment(features, bmi))
            IN Result(risk_category(final_risk_score), Round1(final_risk_score),
                      "model", trace)

\* predict_heart_disease_risk
predict_heart_disease_risk(self, features, failing) ==
    IF use_fallback(self, self.heart_disease_model)
    THEN _fallback_heart_disease_prediction(features)
    ELSE Except(heart_disease_model_path(self, features, failing),
                _fallback_heart_disease_prediction(features))

\* The diabetes rules with age tiers that start above their thresholds.
diabetes_rules_age_above(features) ==
    IF ~IsNum(features.RIDAGEYR)
       \/ features.BMXHT.tag = "absent" \/ features.BMXWT.tag = "absent"
       \/ features.family_history.tag = "absent"
       \/ features.Activity_Level.tag # "str"
       \/ features.smoking.tag = "absent" \/ features.Gender_Male.tag = "absent"
    THEN Raise(<<>>)
    ELSE LET age == features.RIDAGEYR.n
             bmi == calculate_bmi(features.BMXHT, features.BMXWT).bmi
             activity == features.Activity_Level.s
             risk_score ==
                 (IF age > 65 THEN 2000 ELSE IF age > 55 THEN 1500
                  ELSE IF age > 45 THEN 1000 ELSE IF age > 35 THEN 500 ELSE 0)
                 + (IF bmi >= 350 THEN 2500 ELSE IF bmi >= 300 THEN 2000
                    ELSE IF bmi >= 250 THEN 1000 ELSE 0)
                 + (IF Eq1(features.family_history) THEN 1500 ELSE 0)
                 + (IF LowerContains("sedentary", activity) THEN 1500
                    ELSE IF LowerContains("light", activity) THEN 1000
                    ELSE IF LowerContains("moderate", activity) THEN 500 ELSE 0)
                 + (IF Eq1(features.smoking) THEN 1000 ELSE 0)
                 + (IF Eq1(features.Gender_Male) THEN 500 ELSE 0)
             capped == Min(9500, risk_score)
         IN Result(diabetes_category(capped), Round1(capped), "rules", <<>>)

\* The try body of predict_diabetes_risk (lines 388-445).
diabetes_rules(features) ==
    IF ~IsNum(features.RIDAGEYR)
       \/ features.BMXHT.tag = "absent" \/ features.BMXWT.tag = "absent"
       \/ features.family_history.tag = "absent"
       \/ features.Activity_Level.tag # "str"
       \/ features.smoking.tag = "absent" \/ features.Gender_Male.tag = "absent"
    THEN Raise(<<>>)
    ELSE LET age == features.RIDAGEYR.n
             bmi == calculate_bmi(features.BMXHT, features.BMXWT).bmi
             activity == features.Activity_Level.s
             risk_score ==
                 (IF age >= 65 THEN 2000 ELSE IF age >= 55 THEN 1500
                  ELSE IF age >= 45 THEN 1000 ELSE IF age >= 35 THEN 500 ELSE 0)
                 + (IF bmi >= 350 THEN 2500 ELSE IF bmi >= 300 THEN 2000
                    ELSE IF bmi >= 250 THEN 1000 ELSE 0)
                 + (IF Eq1(features.family_history) THEN 1500 ELSE 0)
                 + (IF LowerContains("sedentary", activity) THEN 1500
                    ELSE IF LowerContains("light", activity) THEN 1000
                    ELSE IF LowerContains("moderate", activity) THEN 500 ELSE 0)
                 + (IF Eq1(features.smoking) THEN 1000 ELSE 0)
                 + (IF Eq1(features.Gender_Male) THEN 500 ELSE 0)
             capped == Min(9500, risk_score)
         IN Result(diabetes_category(capped), Round1(capped), "rules", <<>>)

\* predict_diabetes_risk: the except clause gives ("Medium", 40.0).
predict_diabetes_risk(features) ==
    LET body == diabetes_rules(features)
    IN IF body.raised THEN Result("Medium", 4000, "default", <<>>) ELSE body

(***************************************************************************)
(* Score Aggregator, Recommendation Generator and the entry point.         *)
(***************************************************************************)
\* The aggregation without its floor of 1.
overall_health_score_unfloored(obesity_score, heart_score, diabetes_score) ==
    LET sum == obesity_score + heart_score + diabetes_score
    IN 10 * RoundDiv(30000 - sum, 300)

\* avg_risk = (o + h + d) / 3; max(1, 10 - avg_risk / 10); round(.., 1).
\* Scores in hundredths; the result in hundredths (a multiple of 10).
overall_health_score(obesity_score, heart_score, diabetes_score) ==
    LET sum == obesity_score + heart_score + diabetes_score
    IN 10 * RoundDiv(Max(3000, 30000 - sum), 300)

\* The list returned whole, without the limit of six.
NoLimit(list) == list

\* recommendations[:6]
FirstSix(list) == IF Len(list) > 6 THEN SubSeq(list, 1, 6) ELSE list

GeneralRecommendations ==
    <<"Maintain regular physical activity (150+ minutes moderate exercise per week)",
      "Follow a balanced diet rich in fruits, vegetables, and whole grains",
      "Get adequate sleep (7-9 hours per night)",
      "Schedule regular health check-ups with your healthcare provider">>

\* _generate_recommendations
_generate_recommendations(bmi_category, obesity_risk, heart_risk, diabetes_risk) ==
    FirstSix(
        (IF bmi_category = "Underweight"
         THEN <<"Consider consulting a nutritionist for healthy weight gain strategies">>
         ELSE IF bmi_category \in {"Overweight", "Obese"}
         THEN <<"Focus on gradual weight loss through balanced diet and exercise">>
         ELSE <<>>)
        \o (IF obesity_risk = "High"
            THEN <<"Implement portion control and increase physical activity">>
            ELSE <<>>)
        \o (IF heart_risk = "High"
            THEN <<"Regular cardiovascular exercise and heart-healthy diet recommended",
                   "Consider regular blood pressure and cholesterol monitoring">>
            ELSE <<>>)
        \o (IF diabetes_risk = "High"
            THEN <<"Monitor blood sugar levels and limit refined carbohydrates",
                   "Increase fiber intake and maintain regular meal timing">>
            ELSE <<>>)
        \o GeneralRecommendations)

\* 'real_models' if not self.fallback_mode else 'fallback_mode'
model_status(self) == IF ~self.fallback_mode THEN "real_models" ELSE "fallback_mode"

\* The ValueError get_comprehensive_assessment raises (line 498).
AssessmentFailed == [raised |-> TRUE, error |-> "ValueError"]

\* An entry point whose advice also looks at the smoking answer: a smoker
\* is given the diabetes entries whatever the diabetes category is.
assessment_with_lifestyle_advice(self, user_input, failing) ==
    LET conv == convert_inputs(user_input)
        model_features == conv.features
        b == calculate_bmi(model_features.BMXHT, model_features.BMXWT)
        obesity == predict_obesity_risk(self, model_features, failing)
        heart == predict_heart_disease_risk(self, model_features, failing)
        diabetes == predict_diabetes_risk(model_features)
    IN IF ~conv.ok \/ obesity.raised \/ heart.raised \/ diabetes.raised
       THEN AssessmentFailed
       ELSE [raised |-> FALSE,
             features |-> model_features,
             bmi |-> b.bmi,
             bmi_category |-> b.category,
             obesity_risk |-> obesity.category,
             obesity_score |-> obesity.score,
             heart_disease_risk |-> heart.category,
             heart_disease_score |-> heart.score,
             diabetes_risk |-> diabetes.category,
             diabetes_score |-> diabetes.score,
             overall_health_score |->
                 overall_health_score(obesity.score, heart.score, diabetes.score),
             model_status |-> model_status(self),
             recommendations |->
                 _generate_recommendations(b.category, obesity.category, heart.category,
                                           IF Eq1(model_features.smoking) THEN "High"
                                           ELSE diabetes.category),
             obesity |-> obesity, heart |-> heart, diabetes |-> diabetes]

\* get_comprehensive_assessment; failing: the transforms that raise in this call.
\* The fields obesity, heart and diabetes keep the predictors' observations.
get_comprehensive_assessment(self, user_input, failing) ==
    LET conv == convert_inputs(user_input)
        model_features == conv.features
        b == calculate_bmi(model_features.BMXHT, model_features.BMXWT)
        obesity == predict_obesity_risk(self, model_features, failing)
        heart == predict_heart_disease_risk(self, model_features, failing)
        diabetes == predict_diabetes_risk(model_features)
    IN IF ~conv.ok \/ obesity.raised \/ heart.raised \/ diabetes.raised
       THEN AssessmentFailed
       ELSE [raised |-> FALSE,
             features |-> model_features,
             bmi |-> b.bmi,
             bmi_category |-> b.category,
             obesity_risk |-> obesity.category,
             obesity_score |-> obesity.score,
             heart_disease_risk |-> heart.category,
             heart_disease_score |-> heart.score,
             diabetes_risk |-> diabetes.category,
             diabetes_score |-> diabetes.score,
             overall_health_score |->
                 overall_health_score(obesity.score, heart.score, diabetes.score),
             model_status |-> model_status(self),
             recommendations |->
                 _generate_recommendations(b.category, obesity.category,
                                           heart.category, diabetes.category),
             obesity |-> obesity, heart |-> heart, diabetes |-> diabetes]

\* The except clauses of create_health_assessment: the status of the HTTPException.
exception_status(error) == IF error = "ValueError" THEN 400 ELSE 500

(***************************************************************************)
(* The environment: model files on disk and the inputs of the calls.       *)
(***************************************************************************)
\* A scorer that raises, a single-output scorer, and two-class scorers.
ObesityScorers ==
    {RaisingScorer, Scorer(<<0>>), Scorer(<<7004, 2996>>), Scorer(<<0, 10000>>)}

HeartScorers == {RaisingScorer, Scorer(<<10000, 0>>), Scorer(<<1000, 9000>>)}

FileContents(a) ==
    CASE a = "obesity_model" -> ObesityScorers
      [] a = "heart_disease_model" -> HeartScorers
      [] a = "model_metadata" -> {Metadata}
      [] OTHER -> {Transformer}

\* What may be on disk under a model file's name.
FileStates(a) == {MissingFile, CorruptFile} \cup FileContents(a)

FileSystems ==
    {[dir |-> d, files |-> [a \in ModelAttrs |-> MissingFile]] : d \in {"missing", "error"}}
    \cup
    {[dir |-> "ok",
      files |-> [obesity_model |-> om, obesity_scaler |-> os, obesity_imputer |-> oi,
                 activity_encoder |-> ae, heart_disease_model |-> hm,
                 heart_disease_scaler |-> hs, model_metadata |-> md]] :
        om \in FileStates("obesity_model"), os \in FileStates("obesity_scaler"),
        oi \in FileStates("obesity_imputer"), ae \in FileStates("activity_encoder"),
        hm \in FileStates("heart_disease_model"),
        hs \in FileStates("heart_disease_scaler"), md \in FileStates("model_metadata")}

RawInput(age, gender, feet, inches, lbs, activity, family, smoking) ==
    [age |-> age, gender |-> gender, height_feet |-> feet, height_inches |-> inches,
     weight_lbs |-> lbs, activity_level |-> activity, family_history |-> family,
     smoking |-> smoking]

BaseInput ==
    RawInput(IntV(30), StrV("Female"), IntV(5), IntV(8), IntV(130), StrV("Active"),
             BoolV(FALSE), BoolV(FALSE))

\* Well-typed inputs, as the request handler passes them on.
Profiles ==
    {RawInput(IntV(a), StrV("Female"), IntV(5), IntV(8), IntV(w), StrV("Active"),
              BoolV(r), BoolV(r)) : a \in {30, 60}, w \in {130, 200}, r \in BOOLEAN}
    \cup {RawInput(IntV(70), StrV("Male"), IntV(5), IntV(8), IntV(250),
                   StrV("Sedentary"), BoolV(TRUE), BoolV(TRUE))}

\* Mappings a direct caller of the service may pass: fields missing, of
\* another type, or out of the validated range.
OddInputs ==
    {[BaseInput EXCEPT ![k] = v] :
        k \in {"age", "weight_lbs"}, v \in {StrV("abc"), NoneV, StrV("42"), Absent}}
    \cup {[BaseInput EXCEPT ![k] = v] :
            k \in {"height_feet", "height_inches"}, v \in {StrV("abc"), StrV("5"), Absent}}
    \cup {[BaseInput EXCEPT !.gender = v] : v \in {IntV(1), NoneV, StrV("male"), Absent}}
    \cup {[BaseInput EXCEPT !.activity_level = v] :
            v \in {IntV(5), NoneV, Absent, StrV("Light"), StrV("Moderate"),
                   StrV("Very Active")}}
    \cup {[BaseInput EXCEPT !.family_history = v] : v \in {StrV("no"), NoneV, Absent}}
    \cup {[BaseInput EXCEPT !.smoking = v] : v \in {IntV(1), NoneV, Absent}}
    \cup {[BaseInput EXCEPT !.height_feet = IntV(0), !.height_inches = IntV(0)]}
    \cup {[k \in DOMAIN BaseInput |-> Absent]}

RawInputs == Profiles \cup OddInputs

\* The transforms of the bundle that may raise in one call.
FailureSets(self) ==
    {F \in SUBSET {t \in Transforms : self[t] # None} : Cardinality(F) <= MaxFailures}

(***************************************************************************)
(* The state machine.                                                      *)
(***************************************************************************)
NoCall == [active |-> FALSE]

\* What the history keeps of a file system: the directory and the obesity model file.
Seen(fs) == [dir |-> fs.dir, obesity_file |-> fs.files.obesity_model.kind]

Init ==
    /\ ml_service = NewService
    /\ pc = "init"
    /\ call = NoCall
    /\ startup = [dir |-> "unread", obesity_file |-> "unread"]
    /\ degraded = FALSE

\* MLService.__init__ runs load_models once, at process start (main.py:38).
LoadModels(fs) ==
    /\ pc = "init"
    /\ ml_service' = load_models(ml_service, fs).self
    /\ startup' = Seen(fs)
    /\ pc' = "idle"
    /\ UNCHANGED <<call, degraded>>

\* A caller invokes get_comprehensive_assessment and the call runs to its end.
Assess(user_input, failing) ==
    /\ pc = "idle"
    /\ call' = [user_input |-> user_input,
                ret |-> get_comprehensive_assessment(ml_service, user_input, failing)]
    /\ pc' = "returned"
    /\ UNCHANGED <<ml_service, startup, degraded>>

\* The caller takes the result (or the exception); the frame is gone.
Return ==
    /\ pc = "returned"
    /\ pc' = "idle"
    /\ call' = NoCall
    /\ degraded' = (degraded \/ (~call.ret.raised
                                 /\ (call.ret.obesity.caught \/ call.ret.heart.caught)))
    /\ UNCHANGED <<ml_service, startup>>

Next ==
    \/ \E fs \in FileSystems : LoadModels(fs)
    \/ \E user_input \in RawInputs, failing \in FailureSets(ml_service) :
            Assess(user_input, failing)
    \/ Return

Spec == Init /\ [][Next]_vars

(***************************************************************************)
(* The rule tables as pure functions: the service as constructed from a    *)
(* few file systems, called with every combination of the tiers' inputs.   *)
(***************************************************************************)
NoFiles == [a \in ModelAttrs |-> MissingFile]

RuleFileSystems ==
    {[dir |-> "missing", files |-> NoFiles],
     [dir |-> "ok", files |-> NoFiles],
     [dir |-> "ok", files |-> [NoFiles EXCEPT !.obesity_model = Scorer(<<7004, 2996>>),
                                              !.heart_disease_model = Scorer(<<9000, 1000>>)]],
     [dir |-> "ok", files |-> [NoFiles EXCEPT !.obesity_model = Scorer(<<7004, 2996>>),
                                              !.heart_disease_model = Scorer(<<2996>>)]],
     [dir |-> "ok", files |-> [NoFiles EXCEPT !.obesity_model = Scorer(<<7004, 2996>>),
                                              !.heart_disease_model = Scorer(<<1000, 9000>>)]]}

RuleInputs ==
    {RawInput(IntV(a), StrV(g), IntV(5), IntV(8), IntV(w), StrV(act), BoolV(fh), BoolV(sm)) :
        a \in {30, 35, 45, 46, 50, 51, 55, 56, 65, 66},
        g \in {"Male", "Female"},
        w \in {130, 164, 165, 197, 230},
        act \in {"Sedentary", "Light", "Moderate", "Active", "Very Active"},
        fh \in BOOLEAN, sm \in BOOLEAN}

InitRules ==
    /\ \E fs \in RuleFileSystems :
          /\ ml_service = load_models(NewService, fs).self
          /\ startup = Seen(fs)
    /\ pc = "idle"
    /\ call = NoCall
    /\ degraded = FALSE

AssessRules == \E user_input \in RuleInputs : Assess(user_input, {})

NextRules == AssessRules \/ Return

SpecRules == InitRules /\ [][NextRules]_vars

(***************************************************************************)
(* The methods called one at a time: the predictors on any feature record, *)
(* calculate_bmi on any pair of values and _generate_recommendations on    *)
(* every combination of categories.                                        *)
(***************************************************************************)
AllLoaded ==
    [obesity_model |-> Scorer(<<7004, 2996>>), obesity_scaler |-> Transformer,
     obesity_imputer |-> Transformer, activity_encoder |-> Transformer,
     heart_disease_model |-> Scorer(<<1000, 9000>>),
     heart_disease_scaler |-> Transformer, model_metadata |-> Metadata]

UnitFileSystems ==
    {[dir |-> "missing", files |-> NoFiles],
     [dir |-> "ok", files |-> AllLoaded],
     [dir |-> "ok", files |-> [AllLoaded EXCEPT !.obesity_model = RaisingScorer,
                                                !.heart_disease_model = RaisingScorer]]}

\* The feature record of a 30-year-old woman of 5'8" and 130 lb.
BaseFeatures == convert_inputs(BaseInput).features

\* Values a feature can hold in place of the one convert_inputs writes.
OddValues(f) ==
    CASE f \in {"BMXHT", "BMXWT"} -> {Absent, NoneV, StrV("abc"), IntV(0)}
      [] f = "Activity_Level" -> {Absent, NoneV, IntV(5), StrV("abc"), StrV("Sedentary")}
      [] f = "RIDAGEYR" -> {Absent, NoneV, StrV("abc"), BoolV(TRUE), IntV(70)}
      [] OTHER -> {Absent, NoneV, StrV("abc"), BoolV(TRUE), IntV(1)}

\* Heights (0.01 cm) and weights (0.1 g) on both sides of each BMI threshold:
\* at 100 cm the BMI is the weight in kg; at 172.72 cm BMI 25 is 74.5805 kg.
ThresholdBodies ==
    {<<10000, w>> : w \in {184999, 185000, 249999, 250000, 299999, 300000, 349999, 350000}}
    \cup {<<17272, w>> : w \in {745804, 745805, 894965, 894966}}

UnitFeatures ==
    UNION {{[BaseFeatures EXCEPT ![f] = v] : v \in OddValues(f)} :
              f \in DOMAIN BaseFeatures}
    \cup {[BaseFeatures EXCEPT !.BMXHT = IntV(b[1]), !.BMXWT = IntV(b[2])] :
             b \in ThresholdBodies}
    \cup {NoFeatures, BaseFeatures}

BmiArguments ==
    {<<IntV(b[1]), IntV(b[2])>> : b \in ThresholdBodies}
    \cup {<<h, w>> : h \in OddValues("BMXHT") \ {Absent}, w \in {IntV(600000), NoneV}}
    \cup {<<IntV(17272), w>> : w \in OddValues("BMXWT") \ {Absent}}

BmiCategories == {"Underweight", "Normal Weight", "Overweight", "Obese"}
RiskCategories == {"Low", "Medium", "High"}

InitUnits ==
    /\ \E fs \in UnitFileSystems :
          /\ ml_service = load_models(NewService, fs).self
          /\ startup = Seen(fs)
    /\ pc = "idle"
    /\ call = NoCall
    /\ degraded = FALSE

\* The three predictors called on one feature record.
Predict(features, failing) ==
    /\ pc = "idle"
    /\ call' = [features |-> features,
                obesity |-> predict_obesity_risk(ml_service, features, failing),
                heart |-> predict_heart_disease_risk(ml_service, features, failing),
                diabetes |-> predict_diabetes_risk(features)]
    /\ pc' = "predicted"
    /\ UNCHANGED <<ml_service, startup, degraded>>

CalculateBmi(height_cm, weight_kg) ==
    /\ pc = "idle"
    /\ call' = [height_cm |-> height_cm, weight_kg |-> weight_kg,
                ret |-> calculate_bmi(height_cm, weight_kg)]
    /\ pc' = "computed"
    /\ UNCHANGED <<ml_service, startup, degraded>>

GenerateRecommendations(bmi_category, obesity_risk, heart_risk, diabetes_risk) ==
    /\ pc = "idle"
    /\ call' = [bmi_category |-> bmi_category, obesity_risk |-> obesity_risk,
                heart_risk |-> heart_risk, diabetes_risk |-> diabetes_risk,
                ret |-> _generate_recommendations(bmi_category, obesity_risk,
                                                  heart_risk, diabetes_risk)]
    /\ pc' = "recommended"
    /\ UNCHANGED <<ml_service, startup, degraded>>

ReturnUnit ==
    /\ pc \in {"predicted", "computed", "recommended"}
    /\ pc' = "idle"
    /\ call' = NoCall
    /\ UNCHANGED <<ml_service, startup, degraded>>

NextUnits ==
    \/ \E features \in UnitFeatures, failing \in FailureSets(ml_service) :
          Predict(features, failing)
    \/ \E args \in BmiArguments : CalculateBmi(args[1], args[2])
    \/ \E b \in BmiCategories, o \in RiskCategories, h \in RiskCategories,
          d \in RiskCategories : GenerateRecommendations(b, o, h, d)
    \/ ReturnUnit

SpecUnits == InitUnits /\ [][NextUnits]_vars

(***************************************************************************)
(* The request validation of the HTTP handler.                             *)
(***************************************************************************)
\* The five values the form offers.
valid_levels == {"Sedentary", "Light", "Moderate", "Active", "Very Active"}

\* HealthAssessmentRequest.validate_activity_level: a value outside
\* valid_levels raises; the others are mapped to the model's three levels.
validate_activity_level(v) ==
    IF v \notin valid_levels
    THEN [raised |-> TRUE, value |-> v]
    ELSE [raised |-> FALSE,
          value |-> IF v \in {"Light", "Moderate"} THEN "Moderate"
                    ELSE IF v \in {"Active", "Very Active"} THEN "Active"
                    ELSE "Sedentary"]

(***************************************************************************)
(* Calls in flight at the same time.  Each call is a frame that advances   *)
(* one statement of get_comprehensive_assessment at a time and reads the   *)
(* shared service at every step; the steps of the calls interleave freely. *)
(* Here call maps each caller to its frame and startup keeps the service   *)
(* as the constructor left it.                                             *)
(***************************************************************************)
\* Most calls in flight at once.
MaxCallers == 2

Callers == 1..MaxCallers

Pending == [pending |-> TRUE]

NewFrame(user_input, failing) ==
    [at |-> "start", user_input |-> user_input, failing |-> failing,
     features |-> Pending, bmi |-> Pending, obesity |-> Pending,
     heart |-> Pending, diabetes |-> Pending, ret |-> Pending]

\* A predictor that switches the engine to fallback mode when its model-backed
\* path raised.
degrade_on_failure(self, result) ==
    IF result.caught THEN [self EXCEPT !.fallback_mode = TRUE] ELSE self

\* What a predictor call leaves of the service: the predictors assign no
\* attribute of self, in their try bodies or in their except clauses.
after_predict(self, result) == self

ConcurrentInputs ==
    {BaseInput,
     RawInput(IntV(70), StrV("Male"), IntV(5), IntV(8), IntV(250), StrV("Sedentary"),
              BoolV(TRUE), BoolV(TRUE)),
     [BaseInput EXCEPT !.age = StrV("abc")]}

ConcurrentFailures(self) == {F \in FailureSets(self) : F \subseteq {"obesity_scaler"}}

InitConcurrent ==
    /\ \E fs \in UnitFileSystems : ml_service = load_models(NewService, fs).self
    /\ startup = ml_service
    /\ pc = "serving"
    /\ call = [c \in Callers |-> NoCall]
    /\ degraded = FALSE

Enter(c, user_input, failing) ==
    /\ call[c] = NoCall
    /\ call' = [call EXCEPT ![c] = NewFrame(user_input, failing)]
    /\ UNCHANGED <<ml_service, pc, startup, degraded>>

\* A frame fails: the except clause raises ValueError (lines 496-498).
Fail(c) == [call EXCEPT ![c].at = "done", ![c].ret = AssessmentFailed]

\* model_features = self.convert_inputs(user_input)
StepConvert(c) ==
    /\ call[c] # NoCall /\ call[c].at = "start"
    /\ LET conv == convert_inputs(call[c].user_input)
       IN call' = IF conv.ok
                  THEN [call EXCEPT ![c].at = "converted", ![c].features = conv.features]
                  ELSE Fail(c)
    /\ UNCHANGED <<ml_service, pc, startup, degraded>>

\* bmi, bmi_category = self.calculate_bmi(..)
StepBmi(c) ==
    /\ call[c] # NoCall /\ call[c].at = "converted"
    /\ call' = [call EXCEPT ![c].at = "bmi",
                            ![c].bmi = calculate_bmi(call[c].features.BMXHT,
                                                     call[c].features.BMXWT)]
    /\ UNCHANGED <<ml_service, pc, startup, degraded>>

\* obesity_risk, obesity_score = self.predict_obesity_risk(model_features)
StepObesity(c) ==
    /\ call[c] # NoCall /\ call[c].at = "bmi"
    /\ LET result == predict_obesity_risk(ml_service, call[c].features, call[c].failing)
       IN /\ call' = IF result.raised THEN Fail(c)
                     ELSE [call EXCEPT ![c].at = "obesity", ![c].obesity = result]
          /\ ml_service' = after_predict(ml_service, result)
    /\ UNCHANGED <<pc, startup, degraded>>

\* heart_risk, heart_score = self.predict_heart_disease_risk(model_features)
StepHeart(c) ==
    /\ call[c] # NoCall /\ call[c].at = "obesity"
    /\ LET result == predict_heart_disease_risk(ml_service, call[c].features,
                                                call[c].failing)
       IN /\ call' = IF result.raised THEN Fail(c)
                     ELSE [call EXCEPT ![c].at = "heart", ![c].heart = result]
          /\ ml_service' = after_predict(ml_service, result)
    /\ UNCHANGED <<pc, startup, degraded>>

\* diabetes_risk, diabetes_score = self.predict_diabetes_risk(model_features)
StepDiabetes(c) ==
    /\ call[c] # NoCall /\ call[c].at = "heart"
    /\ LET result == predict_diabetes_risk(call[c].features)
       IN /\ call' = IF result.raised THEN Fail(c)
                     ELSE [call EXCEPT ![c].at = "diabetes", ![c].diabetes = result]
          /\ ml_service' = after_predict(ml_service, result)
    /\ UNCHANGED <<pc, startup, degraded>>

\* The health score and the returned dict (lines 476-494).
StepAggregate(c) ==
    /\ call[c] # NoCall /\ call[c].at = "diabetes"
    /\ LET f == call[c]
       IN call' = [call EXCEPT
            ![c].at = "done",
            ![c].ret =
               [raised |-> FALSE,
                features |-> f.features,
                bmi |-> f.bmi.bmi,
                bmi_category |-> f.bmi.category,
                obesity_risk |-> f.obesity.category,
                obesity_score |-> f.obesity.score,
                heart_disease_risk |-> f.heart.category,
                heart_disease_score |-> f.heart.score,
                diabetes_risk |-> f.diabetes.category,
                diabetes_score |-> f.diabetes.score,
                overall_health_score |->
                    overall_health_score(f.obesity.score, f.heart.score,
                                         f.diabetes.score),
                model_status |-> model_status(ml_service),
                recommendations |->
                    _generate_recommendations(f.bmi.category, f.obesity.category,
                                              f.heart.category, f.diabetes.category),
                obesity |-> f.obesity, heart |-> f.heart, diabetes |-> f.diabetes]]
    /\ UNCHANGED <<ml_service, pc, startup, degraded>>

\* The caller takes the result or the exception.
Leave(c) ==
    /\ call[c] # NoCall /\ call[c].at = "done"
    /\ call' = [call EXCEPT ![c] = NoCall]
    /\ UNCHANGED <<ml_service, pc, startup, degraded>>

NextConcurrent ==
    \E c \in Callers :
        \/ \E user_input \in ConcurrentInputs, failing \in ConcurrentFailures(ml_service) :
              Enter(c, user_input, failing)
        \/ StepConvert(c)
        \/ StepBmi(c)
        \/ StepObesity(c)
        \/ StepHeart(c)
        \/ StepDiabetes(c)
        \/ StepAggregate(c)
        \/ Leave(c)

SpecConcurrent == InitConcurrent /\ [][NextConcurrent]_vars

(***************************************************************************)
(* The claims.                                                             *)
(***************************************************************************)
\* A call has returned a result record (it did not raise).
Answered == pc = "returned" /\ ~call.ret.raised

\* The components a predictor invoked.
Invoked(result) == {result.trace[i].c : i \in DOMAIN result.trace}

\* C1: every assessment's obesity, heart-disease and diabetes scores lie in
\* [0, 95], whatever models are loaded and whatever probability they give.
C1_ScoresWithin0To95 ==
    Answered =>
        /\ 0 <= call.ret.obesity_score /\ call.ret.obesity_score <= 9500
        /\ 0 <= call.ret.heart_disease_score /\ call.ret.heart_disease_score <= 9500
        /\ 0 <= call.ret.diabetes_score /\ call.ret.diabetes_score <= 9500

\* The category a returned score selects through the thresholds low and high.
CategoryOf(score, low, high) ==
    IF score < low THEN "Low" ELSE IF score < high THEN "Medium" ELSE "High"

\* C2: each returned category is the one its returned (rounded) score selects:
\* 30 / 70 for obesity and heart disease, 25 / 60 for diabetes.
C2_CategoryMatchesReturnedScore ==
    Answered =>
        /\ call.ret.obesity_risk = CategoryOf(call.ret.obesity_score, 3000, 7000)
        /\ call.ret.heart_disease_risk = CategoryOf(call.ret.heart_disease_score, 3000, 7000)
        /\ call.ret.diabetes_risk = CategoryOf(call.ret.diabetes_score, 2500, 6000)

\* The sum of the three returned scores (hundredths).
ScoreSum ==
    call.ret.obesity_score + call.ret.heart_disease_score + call.ret.diabetes_score

\* C3: overall_health_score is max(1, 10 - avg/10) rounded to one decimal (it
\* is a whole number of tenths within half a tenth of that value), it lies in
\* [1, 10], three scores of 0 give 10.0 and three scores of 95 give 1.0.
C3_OverallHealthScore ==
    /\ Answered =>
        LET overall == call.ret.overall_health_score
            exact30 == IF 30000 - ScoreSum > 3000 THEN 30000 - ScoreSum ELSE 3000
        IN /\ overall % 10 = 0
           /\ 30 * overall - exact30 <= 150 /\ exact30 - 30 * overall <= 150
           /\ 100 <= overall /\ overall <= 1000
           /\ ScoreSum = 0 => overall = 1000
    /\ overall_health_score(0, 0, 0) = 1000
    /\ overall_health_score(9500, 9500, 9500) = 100

\* C3 witness: an assessment with three scores of 0 and overall 10.0.
C3_Witness ==
    Answered /\ ScoreSum = 0 /\ call.ret.overall_health_score = 1000

\* The raw fields that cannot be coerced to their expected primitive type.
Uncoercible(user_input) ==
    \/ \E f \in {"age", "height_feet", "height_inches", "weight_lbs"} :
          user_input[f].tag # "absent" /\ ~PyNumber(user_input[f]).ok
    \/ \E f \in {"gender", "activity_level"} :
          user_input[f].tag \notin {"absent", "str"}

\* The fields of a complete result record hold values of their kinds.
Complete(ret) ==
    /\ ret.bmi_category \in {"Underweight", "Normal Weight", "Overweight", "Obese"}
    /\ \A risk \in {ret.obesity_risk, ret.heart_disease_risk, ret.diabetes_risk} :
          risk \in {"Low", "Medium", "High"}
    /\ \A n \in {ret.bmi, ret.obesity_score, ret.heart_disease_score,
                 ret.diabetes_score, ret.overall_health_score} : n \in Nat
    /\ ret.model_status \in {"real_models", "fallback_mode"}
    /\ Len(ret.recommendations) \in 1..6

\* C4: get_comprehensive_assessment raises only when convert_inputs fails; once
\* the conversion succeeded no failing scorer, encoder, imputer, scaler, BMI
\* computation or fallback rule makes it raise: it returns a complete record.
C4_FailsOnlyOnConversion ==
    pc = "returned" =>
        /\ call.ret.raised <=> ~convert_inputs(call.user_input).ok
        /\ ~call.ret.raised => Complete(call.ret)

\* C4 witness: a call whose scorer raised, with a failed transform before it
\* and a fallback rule that raised as well, still answered with a record.
C4_Witness ==
    /\ Answered
    /\ call.ret.obesity.caught
    /\ \E i \in DOMAIN call.ret.obesity.trace :
          call.ret.obesity.trace[i].c # "obesity_model" /\ ~call.ret.obesity.trace[i].ok
    /\ call.ret.obesity.path = "default"
    /\ call.ret.diabetes.path = "default"

\* C5: a raw field that cannot be coerced to its expected primitive type makes
\* the call raise the input error the handler answers with HTTP 400; no such
\* input yields a normal assessment.
C5_UncoercibleInputRejected ==
    (pc = "returned" /\ Uncoercible(call.user_input)) =>
        call.ret.raised /\ exception_status(call.ret.error) = 400

\* C6: when the model-backed path of the obesity or heart-disease predictor
\* raises in real_models mode, the call returns exactly the rule-based fallback
\* result for the same features, the assessment still reports real_models, the
\* mode stays as it was and later calls still invoke the loaded scorers.
C6_ModelFailureFallsBack ==
    /\ Answered =>
        /\ call.ret.obesity.caught =>
            /\ call.ret.model_status = "real_models"
            /\ call.ret.obesity_risk
                 = _fallback_obesity_prediction(call.ret.features).category
            /\ call.ret.obesity_score
                 = _fallback_obesity_prediction(call.ret.features).score
        /\ call.ret.heart.caught =>
            /\ call.ret.model_status = "real_models"
            /\ call.ret.heart_disease_risk
                 = _fallback_heart_disease_prediction(call.ret.features).category
            /\ call.ret.heart_disease_score
                 = _fallback_heart_disease_prediction(call.ret.features).score
        /\ degraded =>
            /\ "obesity_model" \in Invoked(call.ret.obesity)
            /\ ml_service.heart_disease_model # None
                 => "heart_disease_model" \in Invoked(call.ret.heart)
    /\ degraded => ~ml_service.fallback_mode /\ ml_service.obesity_model # None

\* C6 witness: after a call in which a model-backed path raised, a later call
\* in which both model-backed paths raise and both fallback results come back.
C6_Witness ==
    /\ Answered /\ degraded
    /\ call.ret.obesity.caught /\ call.ret.obesity.path = "fallback"
    /\ call.ret.heart.caught /\ call.ret.heart.path = "fallback"
    /\ call.ret.model_status = "real_models"

\* The obesity scorer was loaded successfully at startup.
ObesityScorerLoaded == startup.dir = "ok" /\ startup.obesity_file = "scorer"

\* The components other than the obesity scorer.
OtherAttrs == ModelAttrs \ {"obesity_model"}

\* C7: an assessment reports real_models if and only if the obesity scorer was
\* loaded at startup, whatever other components are present; else fallback_mode.
C7_ModelStatusIffObesityScorer ==
    Answered =>
        /\ call.ret.model_status = "real_models" <=> ObesityScorerLoaded
        /\ call.ret.model_status = "fallback_mode" <=> ~ObesityScorerLoaded

\* C7 witness: fallback_mode reported with every component but the obesity
\* scorer loaded.
C7_Witness ==
    /\ Answered
    /\ call.ret.model_status = "fallback_mode"
    /\ \A a \in OtherAttrs : ml_service[a] # None

\* The (category, score) pair of a predictor's result.
Pair(result) == <<result.category, result.score>>

\* C8: a predictor takes its model-backed path only in real_models mode and
\* with its own scorer loaded; with the obesity scorer only, the assessment
\* reports real_models and the heart-disease result is the rule-based one; with
\* the heart-disease scorer only, that scorer is never invoked and the
\* rule-based result is returned.
C8_ModelPathSelection ==
    Answered =>
        /\ ("obesity_model" \in Invoked(call.ret.obesity)
              \/ call.ret.obesity.path = "model")
             => ~ml_service.fallback_mode /\ ml_service.obesity_model # None
        /\ ("heart_disease_model" \in Invoked(call.ret.heart)
              \/ call.ret.heart.path = "model")
             => ~ml_service.fallback_mode /\ ml_service.heart_disease_model # None
        /\ (ml_service.obesity_model # None /\ ml_service.heart_disease_model = None)
             => /\ call.ret.model_status = "real_models"
                /\ Invoked(call.ret.heart) = {}
                /\ Pair(call.ret.heart)
                     = Pair(_fallback_heart_disease_prediction(call.ret.features))
        /\ (ml_service.obesity_model = None /\ ml_service.heart_disease_model # None)
             => /\ Invoked(call.ret.heart) = {}
                /\ Pair(call.ret.heart)
                     = Pair(_fallback_heart_disease_prediction(call.ret.features))

\* C8 witness: an assessment by an engine that loaded the heart-disease scorer
\* and its scaler but no obesity scorer.
C8_Witness ==
    /\ Answered
    /\ ml_service.obesity_model = None
    /\ ml_service.heart_disease_model # None
    /\ ml_service.heart_disease_scaler # None
    /\ call.ret.heart.path = "fallback"

\* C9: load_models completes whatever the disk holds; with the models directory
\* missing, the obesity model file missing or its load failing, the engine has
\* fallback_mode = true and models_loaded = false, and every later assessment
\* is rule-based and reports fallback_mode.
C9_LoadFailureDegrades ==
    /\ pc # "init" => startup.dir \in {"missing", "error", "ok"}
    /\ (pc # "init" /\ ~ObesityScorerLoaded) =>
        /\ ml_service.fallback_mode /\ ~ml_service.models_loaded
        /\ Answered =>
            /\ call.ret.model_status = "fallback_mode"
            /\ Invoked(call.ret.obesity) = {} /\ Invoked(call.ret.heart) = {}
            /\ call.ret.obesity.path \in {"fallback", "default"}
            /\ call.ret.heart.path \in {"fallback", "default"}
            /\ call.ret.diabetes.path \in {"rules", "default"}

\* C9 witness: an assessment after a startup in which loading the obesity model
\* file failed while the heart-disease scorer was loaded.
C9_Witness ==
    /\ Answered
    /\ startup.dir = "ok" /\ startup.obesity_file = "corrupt"
    /\ ml_service.heart_disease_model # None
    /\ call.ret.obesity.path = "fallback"

\* The heart-disease rules answered this call.
HeartFallback == Answered /\ call.ret.heart.path = "fallback"

\* C10 as stated: the heart-disease fallback score is min(95, 20 + adjustment)
\* with the adjustments of the model-backed path (+15 / +10 / +5 for age over
\* 65 / 55 / 45, +5 if male, +10 / +5 for BMI of 30 / 25 or more, +15 for
\* family history, +20 for smoking).
C10_SameTableAsModelPath ==
    HeartFallback =>
        call.ret.heart_disease_score
          = Min(9500, 2000 + clinical_adjustment(call.ret.features, call.ret.bmi))

\* The adjustments of the heart-disease rules (hundredths of a point).
FallbackAdjustment(age, male, bmi, family_history, smoking) ==
    (IF age > 65 THEN 2500 ELSE IF age > 55 THEN 1500
     ELSE IF age > 45 THEN 1000 ELSE 0)
    + (IF male THEN 1000 ELSE 0)
    + (IF bmi >= 300 THEN 1500 ELSE 0)
    + (IF family_history THEN 2000 ELSE 0)
    + (IF smoking THEN 2500 ELSE 0)

\* C10 amended: the heart-disease fallback score is min(95, 20 + adjustment)
\* with a table of its own: +25 / +15 / +10 for age over 65 / 55 / 45, +10 if
\* male, +15 for a BMI of 30 or more (nothing below 30), +20 for family
\* history, +25 for smoking.
C10_HeartFallbackTable ==
    HeartFallback =>
        LET f == call.ret.features
            score == 2000 + FallbackAdjustment(f.RIDAGEYR.n, f.Gender_Male.n = 1,
                                               call.ret.bmi, f.family_history.n = 1,
                                               f.smoking.n = 1)
        IN call.ret.heart_disease_score = (IF score > 9500 THEN 9500 ELSE score)

\* C10 witness: the rules applied to a man of 56 to 65 with a BMI of 30 or
\* more and a family history who does not smoke: 20 + 15 + 10 + 15 + 20 = 80.
C10_Witness ==
    /\ HeartFallback
    /\ call.ret.features.RIDAGEYR.n \in 56..65
    /\ call.ret.features.Gender_Male.n = 1
    /\ call.ret.bmi >= 300
    /\ call.ret.features.family_history.n = 1
    /\ call.ret.features.smoking.n = 0
    /\ call.ret.heart_disease_score = 8000

\* The raw activity level of the call, as the caller wrote it.
RawActivity == call.user_input.activity_level.s

\* C11: the obesity fallback score is min(95, base + 10 if age > 50 + 15 if the
\* activity is Sedentary), with base 75 for a BMI of 30 or more, 45 for a BMI
\* of 25 to 30 and 15 otherwise; the BMI is the value calculate_bmi returns.
C11_ObesityFallbackTable ==
    (Answered /\ call.ret.obesity.path = "fallback") =>
        LET age == call.ret.features.RIDAGEYR.n
            sum == (IF call.ret.bmi >= 300 THEN 7500
                    ELSE IF call.ret.bmi >= 250 THEN 4500 ELSE 1500)
                   + (IF age > 50 THEN 1000 ELSE 0)
                   + (IF RawActivity = "Sedentary" THEN 1500 ELSE 0)
            score == IF sum > 9500 THEN 9500 ELSE sum
        IN /\ call.ret.obesity_score = score
           /\ call.ret.obesity_risk = CategoryOf(score, 3000, 7000)

\* C11 witness: a sedentary caller over 50 with a BMI of 30 or more: the sum
\* 75 + 10 + 15 = 100 is clamped to 95, category High.
C11_Witness ==
    /\ Answered /\ call.ret.obesity.path = "fallback"
    /\ call.ret.bmi >= 300
    /\ call.ret.features.RIDAGEYR.n \in 51..55
    /\ RawActivity = "Sedentary"
    /\ call.ret.obesity_score = 9500 /\ call.ret.obesity_risk = "High"

\* C12: the diabetes score is min(95, sum of tiers) from 0: age +20 / +15 /
\* +10 / +5 from 65 / 55 / 45 / 35; BMI +25 / +20 / +10 from 35 / 30 / 25; +15
\* family history; activity +15 Sedentary, +10 Light, +5 Moderate, 0 Active
\* and Very Active; +10 smoking; +5 male; no model is consulted in either mode.
C12_DiabetesTable ==
    Answered =>
        LET f == call.ret.features
            age == f.RIDAGEYR.n
            sum == (IF age >= 65 THEN 2000 ELSE IF age >= 55 THEN 1500
                    ELSE IF age >= 45 THEN 1000 ELSE IF age >= 35 THEN 500 ELSE 0)
                   + (IF call.ret.bmi >= 350 THEN 2500 ELSE IF call.ret.bmi >= 300 THEN 2000
                      ELSE IF call.ret.bmi >= 250 THEN 1000 ELSE 0)
                   + (IF f.family_history.n = 1 THEN 1500 ELSE 0)
                   + (CASE RawActivity = "Sedentary" -> 1500
                        [] RawActivity = "Light" -> 1000
                        [] RawActivity = "Moderate" -> 500
                        [] RawActivity \in {"Active", "Very Active"} -> 0)
                   + (IF f.smoking.n = 1 THEN 1000 ELSE 0)
                   + (IF f.Gender_Male.n = 1 THEN 500 ELSE 0)
        IN /\ call.ret.diabetes_score = (IF sum > 9500 THEN 9500 ELSE sum)
           /\ Invoked(call.ret.diabetes) = {}
           /\ call.ret.diabetes.path = "rules"

\* C12 witness: in real_models mode, a man of 65 with a BMI of 35, a family
\* history, Light activity and smoking: 20 + 25 + 15 + 10 + 10 + 5 = 85.
C12_Witness ==
    /\ Answered /\ call.ret.model_status = "real_models"
    /\ call.ret.obesity.path = "model" /\ call.ret.heart.path = "model"
    /\ call.ret.features.RIDAGEYR.n = 65 /\ call.ret.bmi >= 350
    /\ RawActivity = "Light"
    /\ call.ret.diabetes_score = 8500

\* The heart-disease scorer answered this call.
HeartModel == Answered /\ call.ret.heart.path = "model"

\* The scorer's positive-class probability, or its single output (1/10000).
HeartProbability ==
    LET proba == ml_service.heart_disease_model.proba
    IN IF Len(proba) > 1 THEN proba[2] ELSE proba[1]

\* min(95, p * 100 + adjustment) with the adjustments of the model-backed path.
HeartModelScore ==
    LET f == call.ret.features
        age == f.RIDAGEYR.n
        sum == HeartProbability
               + (IF age > 65 THEN 1500 ELSE IF age > 55 THEN 1000
                  ELSE IF age > 45 THEN 500 ELSE 0)
               + (IF f.Gender_Male.n = 1 THEN 500 ELSE 0)
               + (IF call.ret.bmi >= 300 THEN 1000
                  ELSE IF call.ret.bmi >= 250 THEN 500 ELSE 0)
               + (IF f.family_history.n = 1 THEN 1500 ELSE 0)
               + (IF f.smoking.n = 1 THEN 2000 ELSE 0)
    IN IF sum > 9500 THEN 9500 ELSE sum

\* C13 as stated: the model-backed heart-disease score is min(95, p * 100 +
\* adjustment) with +15 / +10 / +5 for age over 65 / 55 / 45, +5 if male,
\* +10 / +5 for a BMI from 30 / 25, +15 family history, +20 smoking.
C13_HeartModelScoreExact ==
    HeartModel => call.ret.heart_disease_score = HeartModelScore

\* C13 amended: the returned score is that value rounded to one decimal.
C13_HeartModelScoreRounded ==
    HeartModel =>
        /\ call.ret.heart_disease_score % 10 = 0
        /\ 2 * (call.ret.heart_disease_score - HeartModelScore) \in -10..10

\* C13 witness: a single-output scorer giving 0.2996 for a man of 46 to 55
\* with a BMI of 25 to 30 who smokes: 29.96 + 5 + 5 + 5 + 20 = 64.96, returned
\* as 65.0.
C13_Witness ==
    /\ HeartModel
    /\ ml_service.heart_disease_model.proba = <<2996>>
    /\ call.ret.features.RIDAGEYR.n \in 46..55
    /\ call.ret.features.Gender_Male.n = 1
    /\ call.ret.bmi \in 250..299
    /\ call.ret.features.family_history.n = 0
    /\ call.ret.features.smoking.n = 1
    /\ call.ret.heart_disease_score = 6500

\* A feature the rules read with features[name] is missing.
Missing(f, names) == \E name \in names : f[name].tag = "absent"

\* The comparisons of the age with a number raise a TypeError.
AgeUnordered(f) == f.RIDAGEYR.tag \notin {"int", "bool"}

\* The rule-based computations that fail on a feature record.
ObesityRulesFail(f) ==
    \/ Missing(f, {"BMXHT", "BMXWT", "RIDAGEYR"}) \/ AgeUnordered(f)
    \/ f.Activity_Level.tag \notin {"absent", "str"}
HeartRulesFail(f) ==
    \/ Missing(f, {"RIDAGEYR", "Gender_Male", "family_history", "smoking",
                   "BMXHT", "BMXWT"})
    \/ AgeUnordered(f)
DiabetesRulesFail(f) ==
    \/ Missing(f, DOMAIN f) \/ AgeUnordered(f) \/ f.Activity_Level.tag # "str"

\* C14: no predictor raises to its caller, whatever feature record it is given;
\* when even the rule-based computation fails, the obesity predictor returns
\* (Medium, 45.0) and the heart-disease and diabetes predictors (Medium, 40.0).
C14_PredictorsNeverRaise ==
    pc = "predicted" =>
        /\ \A r \in {call.obesity, call.heart, call.diabetes} :
              ~r.raised /\ r.category \in RiskCategories /\ r.score \in 0..10000
        /\ (ObesityRulesFail(call.features) /\ call.obesity.path # "model")
              => Pair(call.obesity) = <<"Medium", 4500>>
        /\ (HeartRulesFail(call.features) /\ call.heart.path # "model")
              => Pair(call.heart) = <<"Medium", 4000>>
        /\ DiabetesRulesFail(call.features)
              => Pair(call.diabetes) = <<"Medium", 4000>>
        /\ call.obesity.path = "default" => ObesityRulesFail(call.features)
        /\ call.heart.path = "default" => HeartRulesFail(call.features)
        /\ call.diabetes.path = "default" => DiabetesRulesFail(call.features)

\* C14 witness: the predictors given an empty feature record by an engine
\* whose scorers raise: the three fixed defaults come back.
C14_Witness ==
    /\ pc = "predicted"
    /\ call.features = NoFeatures
    /\ ml_service.obesity_model = RaisingScorer /\ ~ml_service.fallback_mode
    /\ call.obesity.caught /\ Pair(call.obesity) = <<"Medium", 4500>>
    /\ Pair(call.heart) = <<"Medium", 4000>>
    /\ Pair(call.diabetes) = <<"Medium", 4000>>

\* calculate_bmi was called on a height other than 0 and a weight, both numbers.
BmiComputed ==
    /\ pc = "computed"
    /\ call.height_cm.tag = "int" /\ call.weight_kg.tag = "int"
    /\ call.height_cm.n # 0

\* C15: calculate_bmi takes the category from thresholds with exclusive upper
\* bounds: below 18.5 Underweight, from 18.5 Normal Weight, from 25 Overweight,
\* from 30 Obese; 18.5 and 24.9999 are Normal Weight, 25.0 and 29.9999 are
\* Overweight, 30.0 is Obese.
C15_BmiCategoryThresholds ==
    /\ BmiComputed =>
        LET square == (call.height_cm.n * call.height_cm.n) \div 100
            weight == call.weight_kg.n * 1000
        IN call.ret.category =
             (IF weight < 185 * square THEN "Underweight"
              ELSE IF weight < 250 * square THEN "Normal Weight"
              ELSE IF weight < 300 * square THEN "Overweight"
              ELSE "Obese")
    /\ (BmiComputed /\ call.height_cm.n = 10000) =>
        /\ call.weight_kg.n \in {185000, 249999} => call.ret.category = "Normal Weight"
        /\ call.weight_kg.n \in {250000, 299999} => call.ret.category = "Overweight"
        /\ call.weight_kg.n = 300000 => call.ret.category = "Obese"
        /\ call.weight_kg.n = 184999 => call.ret.category = "Underweight"

\* C15 witness: 25.0 kg at 100 cm, a BMI of exactly 25.0, is Overweight.
C15_Witness ==
    /\ BmiComputed
    /\ call.height_cm.n = 10000 /\ call.weight_kg.n = 250000
    /\ call.ret = [bmi |-> 250, category |-> "Overweight"]

\* The base feature record with a height of 0 or a height or weight that is
\* no number.
BadBody(f) ==
    \/ \E v \in {IntV(0), NoneV, StrV("abc")} : f = [BaseFeatures EXCEPT !.BMXHT = v]
    \/ \E v \in {NoneV, StrV("abc")} : f = [BaseFeatures EXCEPT !.BMXWT = v]

\* C16: calculate_bmi never raises: for a height of 0 or a height or weight
\* that is no number it returns exactly (25.0, Normal Weight), and the
\* predictors that call it go on with that value (the BMI tier of 25).
C16_BmiDefault ==
    /\ (pc = "computed" /\ ~BmiComputed) =>
          call.ret = [bmi |-> 250, category |-> "Normal Weight"]
    /\ (pc = "predicted" /\ BadBody(call.features)) =>
        /\ Pair(call.diabetes) = <<"Low", 1000>> /\ call.diabetes.path = "rules"
        /\ call.obesity.path \in {"model", "fallback"}
        /\ call.obesity.path = "fallback" => Pair(call.obesity) = <<"Medium", 4500>>
        /\ call.heart.path \in {"model", "fallback"}
        /\ call.heart.path = "fallback" => Pair(call.heart) = <<"Low", 2000>>
        /\ call.heart.path = "model" => Pair(call.heart) = <<"High", 9500>>

\* C16 witness: the predictors of an engine in fallback mode given a height
\* of 0: each one computes its rules on a BMI of 25.0.
C16_Witness ==
    /\ pc = "predicted"
    /\ call.features = [BaseFeatures EXCEPT !.BMXHT = IntV(0)]
    /\ call.obesity.path = "fallback" /\ Pair(call.obesity) = <<"Medium", 4500>>
    /\ call.heart.path = "fallback"
    /\ Pair(call.diabetes) = <<"Low", 1000>>

\* The eleven entries in the order the generator appends them.
FixedOrder ==
    <<"Consider consulting a nutritionist for healthy weight gain strategies",
      "Focus on gradual weight loss through balanced diet and exercise",
      "Implement portion control and increase physical activity",
      "Regular cardiovascular exercise and heart-healthy diet recommended",
      "Consider regular blood pressure and cholesterol monitoring",
      "Monitor blood sugar levels and limit refined carbohydrates",
      "Increase fiber intake and maintain regular meal timing",
      "Maintain regular physical activity (150+ minutes moderate exercise per week)",
      "Follow a balanced diet rich in fruits, vegetables, and whole grains",
      "Get adequate sleep (7-9 hours per night)",
      "Schedule regular health check-ups with your healthcare provider">>

\* The entries of FixedOrder that apply to the categories of the call.
Applies(k) ==
    CASE k = 1 -> call.bmi_category = "Underweight"
      [] k = 2 -> call.bmi_category \in {"Overweight", "Obese"}
      [] k = 3 -> call.obesity_risk = "High"
      [] k \in {4, 5} -> call.heart_risk = "High"
      [] k \in {6, 7} -> call.diabetes_risk = "High"
      [] OTHER -> TRUE

\* The place of an entry in FixedOrder.
Place(entry) == CHOOSE k \in DOMAIN FixedOrder : FixedOrder[k] = entry

\* C18: for every combination of categories the list is the first six entries
\* of the fixed-order output (BMI advice, obesity advice, two heart entries,
\* two diabetes entries, four general entries): 1 to 6 entries, no duplicate,
\* the order of the entries never changed.
C18_RecommendationList ==
    pc = "recommended" =>
        LET list == call.ret
            applicable == {k \in DOMAIN FixedOrder : Applies(k)}
        IN /\ Len(list) \in 1..6
           /\ \A i \in DOMAIN list : \E k \in applicable : list[i] = FixedOrder[k]
           /\ \A i, j \in DOMAIN list : i < j => Place(list[i]) < Place(list[j])
           /\ Len(list) = (IF Cardinality(applicable) > 6 THEN 6
                           ELSE Cardinality(applicable))
           /\ \A i \in DOMAIN list :
                 Cardinality({k \in applicable : k < Place(list[i])}) = i - 1

\* C18 witness: Obese with three High risks: ten entries apply and the list
\* is the first six, ending with the two diabetes entries.
C18_Witness ==
    /\ pc = "recommended"
    /\ call.bmi_category = "Obese" /\ call.obesity_risk = "High"
    /\ call.heart_risk = "High" /\ call.diabetes_risk = "High"
    /\ Len(call.ret) = 6
    /\ call.ret[1] = FixedOrder[2] /\ call.ret[6] = FixedOrder[7]

\* C17: the activity collapse maps each of the five values to one of
\* {Sedentary, Moderate, Active} (Light and Moderate to Moderate, Active and
\* Very Active to Active), applying it twice equals applying it once, and the
\* feature record of an assessment never carries another activity value.
C17_ActivityCollapsed ==
    /\ \A v \in valid_levels :
          LET once == validate_activity_level(v)
          IN /\ ~once.raised
             /\ once.value \in {"Sedentary", "Moderate", "Active"}
             /\ validate_activity_level(once.value) = once
    /\ validate_activity_level("Light").value = "Moderate"
    /\ validate_activity_level("Very Active").value = "Active"
    /\ (Answered /\ call.user_input.activity_level.tag = "str"
                 /\ call.user_input.activity_level.s \in valid_levels)
          => call.ret.features.Activity_Level.s \in {"Sedentary", "Moderate", "Active"}

\* The frames that have finished.
Done == {c \in Callers : call[c] # NoCall /\ call[c].at = "done"}

\* C19: in any interleaving of concurrent and repeated calls each call returns
\* what it would return run alone on the models as loaded (scores, categories,
\* ordered recommendations, model_status), and no call changes models_loaded,
\* fallback_mode or a model component.
C19_CallsIndependent ==
    /\ ml_service = startup
    /\ \A c \in Done :
          call[c].ret = get_comprehensive_assessment(startup, call[c].user_input,
                                                     call[c].failing)

\* C19 witness: two calls finished side by side, one of them answered through
\* the fallback after its scorer raised, the other one failed on its input.
C19_Witness ==
    /\ Done = Callers
    /\ \E c \in Callers : ~call[c].ret.raised /\ call[c].ret.obesity.caught
                          /\ Len(call[c].ret.recommendations) = 6
    /\ \E c \in Callers : call[c].ret.raised

\* A component of the bundle is absent.
ComponentAbsent == \E a \in ModelAttrs : ml_service[a] = None

\* C20 as stated: whenever any component of the model bundle is absent, the
\* whole assessment reports model_status fallback_mode.
C20_AnyAbsenceForcesFallback ==
    (Answered /\ ComponentAbsent) => call.ret.model_status = "fallback_mode"

\* C20 amended: whenever the obesity scorer is absent the whole assessment
\* reports fallback_mode and no predictor takes a model-backed path; with the
\* obesity scorer loaded, the absence of any other component leaves the
\* status at real_models.
C20_ObesityScorerDecides ==
    Answered =>
        /\ ml_service.obesity_model = None =>
            /\ call.ret.model_status = "fallback_mode"
            /\ call.ret.obesity.path # "model" /\ call.ret.heart.path # "model"
        /\ (ml_service.obesity_model # None /\ ComponentAbsent) =>
              call.ret.model_status = "real_models"

\* C20 witness: an assessment by an engine that loaded every component but
\* the obesity scorer: fallback_mode, and the heart-disease rules answer.
C20_Witness ==
    /\ Answered
    /\ ml_service.obesity_model = None
    /\ \A a \in OtherAttrs : ml_service[a] # None
    /\ call.ret.model_status = "fallback_mode"
    /\ call.ret.heart.path = "fallback" /\ Invoked(call.ret.heart) = {}

(***************************************************************************)
(* The HTTP layer of main.py with its collaborators FirestoreService and   *)
(* EmailService.  In this specification startup keeps what the process     *)
(* built at start and what the collaborators hold: firestore_service       *)
(* (connected, documents), the number of uuids issued and the emails       *)
(* delivered; call is the request being answered.  Timestamps are left out *)
(* of the records.                                                         *)
(***************************************************************************)
\* Most assessment ids (uuid4 values) issued in one run.
MaxAssessments == 1

\* A request body: the fields of HealthAssessmentRequest.
Body(input, email) ==
    [age |-> input.age, gender |-> input.gender, height_feet |-> input.height_feet,
     height_inches |-> input.height_inches, weight_lbs |-> input.weight_lbs,
     activity_level |-> input.activity_level, family_history |-> input.family_history,
     smoking |-> input.smoking, email |-> email]

\* The validators without the mapping of the activity level.
HealthAssessmentRequest_unmapped(body) ==
    [ok |-> /\ body.age.n >= 18 /\ body.age.n <= 100
            /\ body.gender.s \in {"Male", "Female", "Other"}
            /\ body.height_feet.n >= 4 /\ body.height_feet.n <= 7
            /\ body.height_inches.n >= 0 /\ body.height_inches.n <= 11
            /\ body.weight_lbs.n >= 80 /\ body.weight_lbs.n <= 400
            /\ ~validate_activity_level(body.activity_level.s).raised
            /\ body.email # "",
     assessment |-> body]

\* HealthAssessmentRequest(**body): every validator must pass (a failure is
\* answered 422 before the handler runs); the validated object carries the
\* activity level the validator returned.
HealthAssessmentRequest(body) ==
    LET activity == validate_activity_level(body.activity_level.s)
        ok == /\ body.age.n >= 18 /\ body.age.n <= 100
              /\ body.gender.s \in {"Male", "Female", "Other"}
              /\ body.height_feet.n >= 4 /\ body.height_feet.n <= 7
              /\ body.height_inches.n >= 0 /\ body.height_inches.n <= 11
              /\ body.weight_lbs.n >= 80 /\ body.weight_lbs.n <= 400
              /\ ~activity.raised
              /\ body.email # ""
    IN [ok |-> ok,
        assessment |-> IF ok THEN [body EXCEPT !.activity_level = StrV(activity.value)]
                       ELSE body]

\* The user_input mapping the handler builds from the request object.
user_input_of(assessment) ==
    RawInput(assessment.age, assessment.gender, assessment.height_feet,
             assessment.height_inches, assessment.weight_lbs,
             assessment.activity_level, assessment.family_history, assessment.smoking)

\* round(((height_feet * 12) + height_inches) * 2.54, 1), in tenths of a cm.
stored_height_cm(assessment) ==
    RoundDiv(((assessment.height_feet.n * 12) + assessment.height_inches.n) * 254, 10)

\* round(weight_lbs / 2.20462, 1), in tenths of a kg.
stored_weight_kg(assessment) == RoundDiv(assessment.weight_lbs.n * 1000000, 220462)

\* The results the handler copies into the record and into the response.
results_of(results) ==
    [bmi |-> results.bmi, bmi_category |-> results.bmi_category,
     obesity_risk |-> results.obesity_risk, obesity_score |-> results.obesity_score,
     heart_disease_risk |-> results.heart_disease_risk,
     heart_disease_score |-> results.heart_disease_score,
     diabetes_risk |-> results.diabetes_risk, diabetes_score |-> results.diabetes_score,
     overall_health_score |-> results.overall_health_score,
     model_status |-> results.model_status,
     recommendations |-> results.recommendations]

\* assessment_data: the record handed to save_assessment.
assessment_data(assessment_id, assessment, results) ==
    [id |-> assessment_id,
     user_email |-> assessment.email,
     input_data |->
        [age |-> assessment.age.n, gender |-> assessment.gender.s,
         height_feet |-> assessment.height_feet.n,
         height_inches |-> assessment.height_inches.n,
         height_cm |-> stored_height_cm(assessment),
         weight_lbs |-> assessment.weight_lbs.n,
         weight_kg |-> stored_weight_kg(assessment),
         activity_level |-> assessment.activity_level.s,
         family_history |-> PyBool(assessment.family_history),
         smoking |-> PyBool(assessment.smoking)],
     results |-> results_of(results),
     report_sent |-> FALSE]

(***************************************************************************)
(* FirestoreService.  documents maps the ids of the stored documents to    *)
(* their data; fault: the client call raises in this invocation.           *)
(***************************************************************************)
NoDocuments == [i \in {} |-> NoCall]

\* FirestoreService.__init__: connected is whether the client could be built.
NewFirestore(connected) == [connected |-> connected, documents |-> NoDocuments]

Put(documents, id, data) ==
    [i \in DOMAIN documents \cup {id} |-> IF i = id THEN data ELSE documents[i]]

\* save_assessment: mock mode stores nothing and returns True; an exception
\* of the client is caught and gives False.
save_assessment(self, data, fault) ==
    IF ~self.connected THEN [self |-> self, ret |-> TRUE]
    ELSE IF fault THEN [self |-> self, ret |-> FALSE]
    ELSE [self |-> [self EXCEPT !.documents = Put(self.documents, data.id, data)],
          ret |-> TRUE]

\* _get_mock_assessment: made up for whatever id is asked for.
_get_mock_assessment(assessment_id) ==
    [id |-> assessment_id,
     user_email |-> "test@example.com",
     input_data |-> [age |-> 35, gender |-> "Male", height_cm |-> 1750,
                     weight_kg |-> 800, activity_level |-> "Moderate",
                     family_history |-> FALSE, smoking |-> FALSE],
     results |-> [bmi |-> 261, bmi_category |-> "Overweight",
                  obesity_risk |-> "Medium", heart_disease_risk |-> "Low"],
     report_sent |-> TRUE]

\* get_assessment: the document, or None (found FALSE) when there is none or
\* the client raises; mock mode answers with the mock assessment.
get_assessment(self, assessment_id, fault) ==
    IF ~self.connected
    THEN [found |-> TRUE, data |-> _get_mock_assessment(assessment_id)]
    ELSE IF fault \/ assessment_id \notin DOMAIN self.documents
    THEN [found |-> FALSE, data |-> NoCall]
    ELSE [found |-> TRUE, data |-> self.documents[assessment_id]]

\* update_assessment with {'report_sent': True}: mock mode changes nothing
\* and returns True; an exception of the client (a document that is not
\* there included) gives False.
update_assessment(self, assessment_id, fault) ==
    IF ~self.connected THEN [self |-> self, ret |-> TRUE]
    ELSE IF fault \/ assessment_id \notin DOMAIN self.documents
    THEN [self |-> self, ret |-> FALSE]
    ELSE [self |-> [self EXCEPT !.documents[assessment_id].report_sent = TRUE],
          ret |-> TRUE]

(***************************************************************************)
(* EmailService.                                                           *)
(***************************************************************************)
\* _cm_to_feet_inches: total_inches = cm * 0.393701; feet = int(total_inches
\* // 12), inches = int(total_inches % 12).  cm in tenths; the text
\* "<feet>' <inches>\"" is kept as the pair of its numbers.
_cm_to_feet_inches(cm) ==
    LET total_inches == (cm * 393701) \div 10000000
    IN [feet |-> total_inches \div 12, inches |-> total_inches % 12]

\* The height and weight lines of _generate_html_report: height_ft_in and
\* weight_lbs = round(weight_kg * 2.20462, 1), in tenths of a pound.
_generate_html_report(data) ==
    [height_ft_in |-> _cm_to_feet_inches(data.input_data.height_cm),
     weight_lbs |-> RoundDiv(data.input_data.weight_kg * 220462, 100000)]

\* send_health_report: no address, or a failure of the SMTP delivery, gives
\* success False; otherwise the report is delivered to user_email.
send_health_report(data, smtp_ok) ==
    IF data.user_email = "" \/ ~smtp_ok
    THEN [success |-> FALSE, delivered |-> {}]
    ELSE [success |-> TRUE,
          delivered |-> {[to |-> data.user_email, id |-> data.id,
                          report |-> _generate_html_report(data)]}]

(***************************************************************************)
(* The handlers of main.py.                                                *)
(***************************************************************************)
\* A handler that hands a record to save_assessment whether or not the
\* assessment returned.
store_result_always(fire, results, assessment_id, assessment, fault) ==
    LET data == IF results.raised
                THEN [id |-> assessment_id, user_email |-> assessment.email,
                      report_sent |-> FALSE]
                ELSE assessment_data(assessment_id, assessment, results)
        saved == save_assessment(fire, data, fault)
    IN [self |-> saved.self, ret |-> saved.ret, called |-> TRUE, data |-> data]

\* Lines 175-216 of the try block: reached only when the call of line 173
\* returned; the record is built and handed to save_assessment.
store_result(fire, results, assessment_id, assessment, fault) ==
    IF results.raised
    THEN [self |-> fire, ret |-> FALSE, called |-> FALSE, data |-> NoCall]
    ELSE LET data == assessment_data(assessment_id, assessment, results)
             saved == save_assessment(fire, data, fault)
         IN [self |-> saved.self, ret |-> saved.ret, called |-> TRUE, data |-> data]

\* The one element of a singleton set: names the value of a call made once.
Only(S) == CHOOSE x \in S : TRUE

\* The answer of the handler, given what the assessment and the save returned.
answer_of(results, saved, assessment_id) ==
    [status |-> IF results.raised THEN exception_status(results.error) ELSE 200,
     body |-> IF results.raised THEN NoCall
              ELSE [results |-> results_of(results),
                    assessment_id |-> assessment_id],
     firestore_service |-> saved.self,
     steps |-> <<"get_comprehensive_assessment">>
               \o (IF saved.called THEN <<"save_assessment">> ELSE <<>>),
     saved |-> saved.ret,
     data |-> saved.data]

\* create_health_assessment: the assessment, the record, save_assessment
\* (its return value is not looked at) and the response; an exception of
\* the assessment is answered with the status of the except clause.
create_health_assessment(ml, fire, assessment, assessment_id, failing, fault) ==
    Only({answer_of(results, saved, assessment_id) :
            <<results, saved>> \in
                {<<r, store_result(fire, r, assessment_id, assessment, fault)>> :
                    r \in {get_comprehensive_assessment(ml, user_input_of(assessment),
                                                        failing)}}})

\* send_email_report: 404 without a record; the email; on success the
\* record is marked (the return value of update_assessment is not looked
\* at) and the answer is "sent", otherwise "failed".
send_email_report(fire, assessment_id, read_fault, smtp_ok, write_fault) ==
    LET got == get_assessment(fire, assessment_id, read_fault)
        email_result == send_health_report(got.data, smtp_ok)
        updated == update_assessment(fire, assessment_id, write_fault)
    IN IF ~got.found
       THEN [status |-> 404, body |-> NoCall, firestore_service |-> fire,
             delivered |-> {}, steps |-> <<"get_assessment">>]
       ELSE IF email_result.success
       THEN [status |-> 200,
             body |-> [status |-> "sent", email |-> got.data.user_email],
             firestore_service |-> updated.self,
             delivered |-> email_result.delivered,
             steps |-> <<"get_assessment", "send_health_report", "update_assessment">>]
       ELSE [status |-> 200,
             body |-> [status |-> "failed", email |-> got.data.user_email],
             firestore_service |-> fire,
             delivered |-> {},
             steps |-> <<"get_assessment", "send_health_report">>]

(***************************************************************************)
(* The requests.                                                           *)
(***************************************************************************)
HandlerFileSystems ==
    {[dir |-> "missing", files |-> NoFiles], [dir |-> "ok", files |-> AllLoaded]}

Person(feet, inches, lbs, activity) ==
    Body(RawInput(IntV(50), StrV("Male"), IntV(feet), IntV(inches), IntV(lbs),
                  StrV(activity), BoolV(FALSE), BoolV(FALSE)), "user@example.com")

\* Bodies that pass validation: the shortest and the tallest heights, the
\* lightest and the heaviest weights, and every activity level of the form.
ValidBodies ==
    {Person(4, i, 150, "Moderate") : i \in {0, 1, 11}}
    \cup {Person(7, 11, 150, "Moderate")}
    \cup {Person(5, 8, w, "Moderate") : w \in {80, 257, 400}}
    \cup {Person(5, 8, 150, a) : a \in valid_levels}

\* Bodies a validator rejects.
InvalidBodies ==
    {[Person(5, 8, 150, "Moderate") EXCEPT ![k] = IntV(v)] :
        k \in {"age"}, v \in {17, 101}}
    \cup {[Person(5, 8, 150, "Moderate") EXCEPT !.height_feet = IntV(v)] : v \in {3, 8}}
    \cup {[Person(5, 8, 150, "Moderate") EXCEPT !.height_inches = IntV(12)],
          [Person(5, 8, 150, "Moderate") EXCEPT !.weight_lbs = IntV(79)],
          [Person(5, 8, 150, "Moderate") EXCEPT !.weight_lbs = IntV(401)],
          [Person(5, 8, 150, "Moderate") EXCEPT !.gender = StrV("male")],
          [Person(5, 8, 150, "Moderate") EXCEPT !.email = ""],
          Person(5, 8, 150, "Extreme")}

Bodies == ValidBodies \cup InvalidBodies

\* Request objects built without validation (HealthAssessmentRequest.construct)
\* for a direct call of the handler function.
UnvalidatedRequests ==
    {[Person(5, 8, 150, "Light") EXCEPT !.age = v] : v \in {StrV("abc"), NoneV, IntV(17)}}

\* Ids a client may ask a report for: 0 was never issued.
RequestedIds == 0 .. MaxAssessments

InitHandler ==
    /\ \E fs \in HandlerFileSystems : ml_service = load_models(NewService, fs).self
    /\ \E connected \in BOOLEAN :
          startup = [firestore_service |-> NewFirestore(connected),
                     issued |-> 0, outbox |-> {}]
    /\ pc = "idle"
    /\ call = NoCall
    /\ degraded = FALSE

\* The handler proper, entered with a request object: a uuid is drawn, the
\* handler runs to its answer.  call keeps the body as it was sent and the
\* transforms that raised, next to the request object and the answer.
Handle(body, assessment, validated, failing, fault) ==
    /\ startup.issued < MaxAssessments
    /\ \E answer \in {create_health_assessment(ml_service, startup.firestore_service,
                                                assessment, startup.issued + 1,
                                                failing, fault)} :
       /\ call' = [endpoint |-> "health-assessment", body |-> body,
                   request |-> assessment, validated |-> validated,
                   failing |-> failing, answer |-> answer]
       /\ startup' = [startup EXCEPT !.firestore_service = answer.firestore_service,
                                     !.issued = @ + 1]

\* POST /api/health-assessment: a body that fails validation is answered 422
\* and the handler does not run.
Post(body, failing, fault) ==
    /\ pc = "idle"
    /\ pc' = "responded"
    /\ LET req == HealthAssessmentRequest(body)
       IN IF req.ok
          THEN Handle(body, req.assessment, TRUE, failing, fault)
          ELSE /\ call' = [endpoint |-> "health-assessment", body |-> body,
                           request |-> body, validated |-> FALSE,
                           failing |-> failing,
                           answer |-> [status |-> 422, body |-> NoCall,
                                       firestore_service |-> startup.firestore_service,
                                       steps |-> <<>>, saved |-> FALSE,
                                       data |-> NoCall]]
               /\ UNCHANGED startup
    /\ UNCHANGED <<ml_service, degraded>>

\* create_health_assessment called as a function with an unvalidated object.
Invoke(assessment, failing, fault) ==
    /\ pc = "idle"
    /\ pc' = "responded"
    /\ Handle(assessment, assessment, FALSE, failing, fault)
    /\ UNCHANGED <<ml_service, degraded>>

\* POST /api/send-report/{assessment_id}
SendReport(assessment_id, read_fault, smtp_ok, write_fault) ==
    /\ pc = "idle"
    /\ pc' = "responded"
    /\ \E answer \in {send_email_report(startup.firestore_service, assessment_id,
                                         read_fault, smtp_ok, write_fault)} :
          /\ call' = [endpoint |-> "send-report", request |-> assessment_id,
                      smtp_ok |-> smtp_ok, answer |-> answer]
          /\ startup' = [startup EXCEPT
                            !.firestore_service = answer.firestore_service,
                            !.outbox = @ \cup answer.delivered]
    /\ UNCHANGED <<ml_service, degraded>>

\* The answer is on its way; the next request is taken.
Respond ==
    /\ pc = "responded"
    /\ pc' = "idle"
    /\ call' = NoCall
    /\ UNCHANGED <<ml_service, startup, degraded>>

NextHandler ==
    \/ \E body \in Bodies, failing \in ConcurrentFailures(ml_service), fault \in BOOLEAN :
            Post(body, failing, fault)
    \/ \E assessment \in UnvalidatedRequests, fault \in BOOLEAN :
            Invoke(assessment, {}, fault)
    \/ \E assessment_id \in RequestedIds, read_fault, smtp_ok, write_fault \in BOOLEAN :
            SendReport(assessment_id, read_fault, smtp_ok, write_fault)
    \/ Respond

SpecHandler == InitHandler /\ [][NextHandler]_vars

(***************************************************************************)
(* The claims about the HTTP layer.                                        *)
(***************************************************************************)
\* The answer of the assessment endpoint is ready.
Assessed == pc = "responded" /\ call.endpoint = "health-assessment"

Documents == startup.firestore_service.documents

\* The reports delivered for records the assessment handler stored.
ReportsOfRecords ==
    {e \in startup.outbox :
        startup.firestore_service.connected /\ e.id \in DOMAIN Documents}

Distance(a, b) == IF a >= b THEN a - b ELSE b - a

\* C21: for every valid height and weight, the feet, inches and pounds the
\* report derives from the height_cm and weight_kg stored with the
\* assessment are the feet and inches of the request exactly and its pounds
\* within 0.1.
C21_UnitRoundTrip ==
    \A e \in ReportsOfRecords :
        LET input_data == Documents[e.id].input_data
        IN /\ e.report.height_ft_in = [feet |-> input_data.height_feet,
                                       inches |-> input_data.height_inches]
           /\ Distance(e.report.weight_lbs, 10 * input_data.weight_lbs) <= 1

(***************************************************************************)
(* convert_inputs called directly with mappings that lack fields.          *)
(***************************************************************************)
\* A second well-typed mapping, different from the defaults in every field.
OtherInput ==
    RawInput(IntV(61), StrV("Female"), IntV(6), IntV(1), IntV(210), StrV("Sedentary"),
             BoolV(TRUE), BoolV(TRUE))

\* m without the keys of missing.
Without(m, missing) == [k \in DOMAIN m |-> IF k \in missing THEN Absent ELSE m[k]]

\* Every subset of the fields missing from either mapping.
PartialInputs ==
    {Without(m, missing) : m \in {BaseInput, OtherInput}, missing \in SUBSET DOMAIN BaseInput}

InitConvert ==
    /\ \E fs \in UnitFileSystems :
          /\ ml_service = load_models(NewService, fs).self
          /\ startup = Seen(fs)
    /\ pc = "idle"
    /\ call = NoCall
    /\ degraded = FALSE

ConvertInputs(user_input) ==
    /\ pc = "idle"
    /\ call' = [user_input |-> user_input, ret |-> convert_inputs(user_input)]
    /\ pc' = "converted"
    /\ UNCHANGED <<ml_service, startup, degraded>>

ReturnConverted ==
    /\ pc = "converted"
    /\ pc' = "idle"
    /\ call' = NoCall
    /\ UNCHANGED <<ml_service, startup, degraded>>

NextConvert ==
    \/ \E user_input \in PartialInputs : ConvertInputs(user_input)
    \/ ReturnConverted

SpecConvert == InitConvert /\ [][NextConvert]_vars

\* The defaults as the claim lists them.
StatedDefaults ==
    RawInput(IntV(30), StrV("Male"), IntV(5), IntV(8), IntV(150), StrV("Moderate"),
             BoolV(FALSE), BoolV(FALSE))

\* The mapping with the stated default written in for every missing key.
WrittenOut(m) == [k \in DOMAIN m |-> IF m[k] = Absent THEN StatedDefaults[k] ELSE m[k]]

MissingKeys(m) == {k \in DOMAIN m : m[k] = Absent}

\* C22: convert_inputs accepts a mapping with any subset of its fields
\* missing; its result is the result for the same mapping with the defaults
\* (30, Male, 5 ft 8 in, 150 lb, Moderate, false, false) written out, and
\* the empty mapping gives the features of exactly those defaults.
C22_MissingFieldsDefaulted ==
    pc = "converted" =>
        /\ call.ret.ok
        /\ MissingKeys(WrittenOut(call.user_input)) = {}
        /\ call.ret.features = convert_inputs(WrittenOut(call.user_input)).features
        /\ MissingKeys(call.user_input) = DOMAIN call.user_input =>
              call.ret.features =
                 [RIDAGEYR |-> IntV(30), Gender_Male |-> IntV(1),
                  BMXHT |-> IntV(17272), BMXWT |-> IntV(680389),
                  Activity_Level |-> StrV("Moderate"),
                  family_history |-> IntV(0), smoking |-> IntV(0)]

\* C22 witness: a mapping that lacks age, gender and weight, and only those,
\* was converted: the features carry age 30, male, 68.04 kg and the height
\* and activity level the mapping gave.
C22_Witness ==
    /\ pc = "converted"
    /\ MissingKeys(call.user_input) = {"age", "gender", "weight_lbs"}
    /\ call.user_input.height_feet = IntV(6)
    /\ call.ret.ok
    /\ call.ret.features.RIDAGEYR = IntV(30)
    /\ call.ret.features.Gender_Male = IntV(1)
    /\ call.ret.features.BMXWT = IntV(680389)
    /\ call.ret.features.BMXHT = IntV(18542)
    /\ call.ret.features.Activity_Level = StrV("Sedentary")

\* The assessment of this request object raises.
AssessmentRaises(request) ==
    get_comprehensive_assessment(ml_service, user_input_of(request), {}).raised

\* C23: the assessment handler calls save_assessment only after
\* get_comprehensive_assessment has returned; when the assessment raises,
\* save_assessment is not called, the store stays as it was and the answer
\* is an error without an assessment_id.
C23_SaveOnlyAfterAssessment ==
    [][(pc = "idle" /\ pc' = "responded" /\ call'.endpoint = "health-assessment"
        /\ call'.answer.status # 422) =>
          LET answer == call'.answer
          IN /\ (\E i \in DOMAIN answer.steps : answer.steps[i] = "save_assessment") =>
                   /\ answer.steps = <<"get_comprehensive_assessment", "save_assessment">>
                   /\ ~AssessmentRaises(call'.request)
             /\ AssessmentRaises(call'.request) =>
                   /\ answer.steps = <<"get_comprehensive_assessment">>
                   /\ startup'.firestore_service = startup.firestore_service
                   /\ answer.status \in {400, 500}
                   /\ "assessment_id" \notin DOMAIN answer.body]_vars

\* C23 witness: the handler was entered with an age that int() rejects and
\* a connected store; the assessment raised, the answer is 400 and the
\* store is still empty.
C23_Witness ==
    /\ Assessed
    /\ call.request.age = StrV("abc")
    /\ call.answer.status = 400
    /\ call.answer.steps = <<"get_comprehensive_assessment">>
    /\ startup.firestore_service.connected
    /\ Documents = NoDocuments

(***************************************************************************)
(* The claims about the order of the transforms.                           *)
(***************************************************************************)
\* The components of the model-backed obesity path, in the order of the code.
ObesityOrder == <<"activity_encoder", "obesity_imputer", "obesity_scaler", "obesity_model">>

IsLoaded(c) == ml_service[c] # None

\* The names of the components a trace invoked, in the order of invocation.
Names(trace) == [i \in DOMAIN trace |-> trace[i].c]

\* What the obesity scorer of the bundle gives: its probability as a
\* percentage, rounded to one decimal.
ObesityScorerScore ==
    LET p == ml_service.obesity_model.proba
    IN Round1(Times100(IF Len(p) > 1 THEN p[2] ELSE p[1]))

\* C24: on the model-backed obesity path the loaded components run in the
\* order encoder, imputer, scaler, scorer; a failure of the encoder, the
\* imputer or the scaler skips only that step: every later component still
\* runs and the score is the one the scorer gives.
C24_TransformOrder ==
    (Answered /\ call.ret.obesity.trace # <<>>) =>
        LET trace == call.ret.obesity.trace
        IN /\ Names(trace) = SelectSeq(ObesityOrder, IsLoaded)
           /\ trace[Len(trace)].c = "obesity_model"
           /\ trace[Len(trace)].ok =>
                 /\ call.ret.obesity.path = "model"
                 /\ call.ret.obesity_score = ObesityScorerScore

\* C24 witness: the encoder raised in a call of a fully loaded engine; the
\* imputer, the scaler and the scorer ran after it and the scorer's 29.96
\* is the score (30.0 after rounding).
C24_Witness ==
    /\ Answered
    /\ call.ret.obesity.trace =
          <<[c |-> "activity_encoder", ok |-> FALSE],
            [c |-> "obesity_imputer", ok |-> TRUE],
            [c |-> "obesity_scaler", ok |-> TRUE],
            [c |-> "obesity_model", ok |-> TRUE]>>
    /\ call.ret.obesity.path = "model"
    /\ call.ret.obesity_score = 3000

\* The category a one-decimal BMI (in tenths) selects by 18.5 / 25 / 30.
CategoryOfReported(bmi) ==
    IF bmi < 185 THEN "Underweight"
    ELSE IF bmi < 250 THEN "Normal Weight"
    ELSE IF bmi < 300 THEN "Overweight"
    ELSE "Obese"

\* C25: the bmi_category of an assessment is the category its reported
\* one-decimal bmi selects by the thresholds 18.5, 25 and 30; an assessment
\* never reports 25.0 with Normal Weight or 30.0 with Overweight.
C25_CategoryOfReportedBmi ==
    Answered => call.ret.bmi_category = CategoryOfReported(call.ret.bmi)

\* C26: every assessment_id of a successful answer identifies a record that
\* is stored: when save_assessment returned False the handler does not
\* answer success with that id.
C26_ReturnedIdIsStored ==
    (Assessed /\ call.answer.status = 200) =>
        /\ call.answer.saved
        /\ call.answer.body.assessment_id \in DOMAIN Documents

(***************************************************************************)
(* The service as an object whose methods are called in any order:         *)
(* load_models again after the constructor, with the model files changing  *)
(* between the calls, get_comprehensive_assessment and health_check.       *)
(***************************************************************************)
\* health_check: the flags and which components are loaded.
health_check(self) ==
    [models_loaded |-> self.models_loaded,
     fallback_mode |-> self.fallback_mode,
     available_models |-> [a \in ModelAttrs |-> self[a] # None],
     status |-> IF self.models_loaded THEN "ready" ELSE "fallback"]

\* What load_models may find: no directory, an unreadable one, an empty
\* one, every file (the obesity scorer sound or raising), or a few files.
ReloadFileSystems ==
    {[dir |-> "missing", files |-> NoFiles],
     [dir |-> "error", files |-> NoFiles],
     [dir |-> "ok", files |-> NoFiles],
     [dir |-> "ok", files |-> AllLoaded],
     [dir |-> "ok", files |-> [NoFiles EXCEPT !.obesity_model = Scorer(<<7004, 2996>>)]],
     [dir |-> "ok", files |-> [NoFiles EXCEPT !.heart_disease_model = CorruptFile,
                                              !.obesity_scaler = Transformer]],
     [dir |-> "ok", files |-> [AllLoaded EXCEPT !.obesity_model = RaisingScorer]]}

\* load_models called on the constructed service.
Reload(fs) ==
    /\ pc = "idle"
    /\ ml_service' = load_models(ml_service, fs).self
    /\ startup' = Seen(fs)
    /\ UNCHANGED <<pc, call, degraded>>

HealthCheck ==
    /\ pc = "idle"
    /\ call' = [ret |-> health_check(ml_service)]
    /\ pc' = "checked"
    /\ UNCHANGED <<ml_service, startup, degraded>>

ReturnChecked ==
    /\ pc = "checked"
    /\ pc' = "idle"
    /\ call' = NoCall
    /\ UNCHANGED <<ml_service, startup, degraded>>

NextReload ==
    \/ \E fs \in ReloadFileSystems : LoadModels(fs)
    \/ \E fs \in ReloadFileSystems : Reload(fs)
    \/ \E user_input \in ConcurrentInputs, failing \in ConcurrentFailures(ml_service) :
            Assess(user_input, failing)
    \/ Return
    \/ HealthCheck
    \/ ReturnChecked

SpecReload == Init /\ [][NextReload]_vars

\* C27: once the service is constructed, however load_models and
\* get_comprehensive_assessment are called afterwards, models_loaded and
\* fallback_mode are never both true, and fallback_mode is false exactly
\* when obesity_model is not None; health_check reports the same.
C27_FlagsConsistent ==
    /\ pc # "init" =>
          /\ ~(ml_service.models_loaded /\ ml_service.fallback_mode)
          /\ (~ml_service.fallback_mode) <=> (ml_service.obesity_model # None)
    /\ pc = "checked" =>
          /\ ~(call.ret.models_loaded /\ call.ret.fallback_mode)
          /\ (~call.ret.fallback_mode) <=> call.ret.available_models.obesity_model

\* C28: the report endpoint sets report_sent only after the email send
\* reported success; when the send fails the record is not updated and the
\* answer's status is "failed"; when there is no record for the id, no email
\* is sent and the answer is 404.
C28_ReportSentOnlyAfterDelivery ==
    [][(pc = "idle" /\ pc' = "responded" /\ call'.endpoint = "send-report") =>
          LET id == call'.request
              answer == call'.answer
              sending == \E i \in DOMAIN answer.steps :
                            answer.steps[i] = "send_health_report"
          IN /\ startup'.firestore_service # startup.firestore_service =>
                   /\ sending /\ call'.smtp_ok
                   /\ answer.body.status = "sent"
             /\ (sending /\ ~call'.smtp_ok) =>
                   /\ startup'.firestore_service = startup.firestore_service
                   /\ answer.body.status = "failed"
             /\ id \notin DOMAIN Documents =>
                   /\ answer.status = 404
                   /\ ~sending
                   /\ startup'.outbox = startup.outbox]_vars

\* The other activity level of the same pair of the form.
Twin(level) ==
    CASE level = "Light" -> "Moderate"
      [] level = "Moderate" -> "Light"
      [] level = "Active" -> "Very Active"
      [] level = "Very Active" -> "Active"
      [] OTHER -> level

\* The results the endpoint gives for a body, under the same failures.
ResultsFor(body, failing) ==
    Only({results_of(results) :
            results \in {get_comprehensive_assessment(
                             ml_service,
                             user_input_of(HealthAssessmentRequest(body).assessment),
                             failing)}})

\* C29: through the HTTP handler, a request with Light and the same request
\* with Moderate (Active and Very Active likewise) receive the same results:
\* the request object the handler sees carries one of Sedentary, Moderate,
\* Active, so the Light tier of the diabetes rules is never applied.
C29_PairedLevelsSameResults ==
    (Assessed /\ call.validated /\ call.answer.status = 200) =>
        /\ call.request.activity_level.s \in {"Sedentary", "Moderate", "Active"}
        /\ call.answer.data.input_data.activity_level = call.request.activity_level.s
        /\ call.answer.body.results =
              ResultsFor([call.body EXCEPT
                             !.activity_level = StrV(Twin(call.body.activity_level.s))],
                         call.failing)

\* C29 witness: a 50-year-old man of 5'8" and 150 lb sent Light; the
\* diabetes score is the 20.0 of Moderate (age 10, activity 5, male 5), not
\* the 25.0 of the Light tier.
C29_Witness ==
    /\ Assessed /\ call.validated /\ call.answer.status = 200
    /\ call.body.activity_level = StrV("Light")
    /\ call.body.height_feet = IntV(5)
    /\ call.request.activity_level = StrV("Moderate")
    /\ call.answer.body.results.diabetes_score = 2000

(***************************************************************************)
(* The claims about the recommendations of an assessment.                  *)
(***************************************************************************)
\* Whether entry k of FixedOrder belongs to the four categories of a result.
Belongs(ret, k) ==
    CASE k = 1 -> ret.bmi_category = "Underweight"
      [] k = 2 -> ret.bmi_category \in {"Overweight", "Obese"}
      [] k = 3 -> ret.obesity_risk = "High"
      [] k \in {4, 5} -> ret.heart_disease_risk = "High"
      [] k \in {6, 7} -> ret.diabetes_risk = "High"
      [] OTHER -> TRUE

\* The list the four categories of a result stand for: the entries that
\* belong to them, in the fixed order, cut after the sixth.
ListOfCategories(ret) ==
    LET belongs(entry) == Belongs(ret, Place(entry))
        all == SelectSeq(FixedOrder, belongs)
    IN IF Len(all) > 6 THEN SubSeq(all, 1, 6) ELSE all

Categories(ret) ==
    <<ret.bmi_category, ret.obesity_risk, ret.heart_disease_risk, ret.diabetes_risk>>

\* C30: the recommendation list of an assessment is a function of its four
\* categories (bmi_category, obesity_risk, heart_disease_risk,
\* diabetes_risk) alone: inputs with the same four categories get the same
\* ordered list whatever their activity level, smoking and family history.
C30_ListFromCategoriesOnly ==
    Answered => call.ret.recommendations = ListOfCategories(call.ret)

\* C30 witness: a sedentary smoker with family history was assessed; the
\* same person active and not smoking has another diabetes score but the
\* same four categories, and both get the same list of more than the four
\* general entries.
C30_Witness ==
    /\ Answered
    /\ call.user_input.smoking = BoolV(TRUE)
    /\ call.user_input.family_history = BoolV(TRUE)
    /\ call.user_input.activity_level = StrV("Sedentary")
    /\ LET other == get_comprehensive_assessment(
                        ml_service,
                        [call.user_input EXCEPT !.smoking = BoolV(FALSE),
                                                !.activity_level = StrV("Active")],
                        {})
       IN /\ Categories(other) = Categories(call.ret)
          /\ other.diabetes_score # call.ret.diabetes_score
          /\ other.recommendations = call.ret.recommendations
          /\ Len(call.ret.recommendations) > 4

====
